---- MODULE Spec2Model ----
(***************************************************************************)
(* Loading Optimization Engine of TLC4Pipes: gap clearance, Matryoshka     *)
(* nesting, spatial admission test and truck bin packing.                  *)
(*                                                                         *)
(* Units.  Diameters are millimetres, weights per metre are kg/m and the   *)
(* pipe length is metres, all integers.  Gap values (products with 0.04    *)
(* and 0.015) are carried in micrometres, i.e. multiplied by Milli, so     *)
(* that the comparisons of the source are exact integer comparisons.       *)
(* A dict key that is absent in the source (.get default 0 / None) is the  *)
(* value 0 of the corresponding record field.                              *)
(***************************************************************************)
EXTENDS Integers, Sequences, FiniteSets, TLC

\* ------------------------------------------------------------------ bounds
\* the longest pipe list of a call
MaxLen == 3
\* the largest max_levels handed to the nesting engine
MaxLevelsArg == 12
\* the kg/m by which the second call raises one pipe's weight_per_meter
WeightStep == 10

\* --------------------------------------------------------- program constants
Milli == 1000
BASE_CLEARANCE_MM == 15
DIAMETER_FACTOR_MILLI == 15
OVALITY_FACTOR_MILLI == 40
MAX_NESTING_LEVELS == 10
GAP_MM == 20
SQRT3_OVER_2_MILLI == 866
HeightScale == 2 * Milli
ELIMINATE_MAX_ITERATIONS == 10
OPTIMIZE_MAX_ITERATIONS == 20
STRATEGY_B_ATTEMPTS == 5

\* ------------------------------------------------------------ generic helpers
Max2(a, b) == IF a >= b THEN a ELSE b

Abs(x) == IF x < 0 THEN 0 - x ELSE x

RECURSIVE SumSeq(_)
SumSeq(s) == IF s = << >> THEN 0 ELSE Head(s) + SumSeq(Tail(s))

RemoveAt(s, i) == SubSeq(s, 1, i - 1) \o SubSeq(s, i + 1, Len(s))

\* ---------------------------------------------------------------- pipe dicts
BaseFields == {"code", "dn_mm", "outer_diameter_mm", "inner_diameter_mm", "weight_per_meter"}

Pipe(c, dn, inner, w) ==
    [code |-> c, dn_mm |-> dn, outer_diameter_mm |-> dn,
     inner_diameter_mm |-> inner, weight_per_meter |-> w]

\* pipe_data.get("outer_diameter_mm") or pipe_data.get("dn_mm", 0)
OuterOf(p) == IF p.outer_diameter_mm # 0 THEN p.outer_diameter_mm ELSE p.dn_mm

\* the caller's dict, without the clearance_result key find_compatible_pipes adds
Strip(p) == [f \in BaseFields |-> p[f]]

\* ------------------------------------------------------------- gap clearance
calculate_minimum_gap(outer) == BASE_CLEARANCE_MM * Milli + DIAMETER_FACTOR_MILLI * outer

calculate_effective_inner_diameter(inner, outer) == inner * Milli - outer * OVALITY_FACTOR_MILLI

\* variant: a gap equal to the required gap is refused
validate_nesting_strictly(host_inner, host_outer, guest_outer, apply_ovality) ==
    LET effective_inner == IF apply_ovality
                           THEN calculate_effective_inner_diameter(host_inner, host_outer)
                           ELSE host_inner * Milli
        available_gap == effective_inner - guest_outer * Milli
        required_gap == calculate_minimum_gap(host_outer)
    IN [available_gap_mm |-> available_gap,
        required_gap_mm |-> required_gap,
        is_valid |-> available_gap > required_gap,
        ovality_adjusted_inner_mm |-> effective_inner]

validate_nesting_compatibility(host_inner, host_outer, guest_outer, apply_ovality) ==
    LET effective_inner == IF apply_ovality
                           THEN calculate_effective_inner_diameter(host_inner, host_outer)
                           ELSE host_inner * Milli
        available_gap == effective_inner - guest_outer * Milli
        required_gap == calculate_minimum_gap(host_outer)
    IN [available_gap_mm |-> available_gap,
        required_gap_mm |-> required_gap,
        is_valid |-> available_gap >= required_gap,
        ovality_adjusted_inner_mm |-> effective_inner]

\* ------------------------------------------------------------------- sorting
\* Sort keys are tuples of integers, compared as Python compares tuples.
RECURSIVE LexLess(_, _)
LexLess(a, b) ==
    IF a = << >> \/ b = << >> THEN a = << >> /\ b # << >>
    ELSE IF Head(a) # Head(b) THEN Head(a) < Head(b)
    ELSE LexLess(Tail(a), Tail(b))

\* sorted()/list.sort are stable, also with reverse=True: an element is put
\* in front of the first element it strictly precedes, ties keep input order.
RECURSIVE InsertKeyed(_, _, _)
InsertKeyed(s, e, reverse) ==
    IF s = << >> THEN << e >>
    ELSE IF (IF reverse THEN LexLess(Head(s).k, e.k) ELSE LexLess(e.k, Head(s).k))
         THEN << e >> \o s
         ELSE << Head(s) >> \o InsertKeyed(Tail(s), e, reverse)

RECURSIVE SortKeyed(_, _)
SortKeyed(s, reverse) ==
    IF s = << >> THEN << >>
    ELSE InsertKeyed(SortKeyed(SubSeq(s, 1, Len(s) - 1), reverse), s[Len(s)], reverse)

\* sorted(s, key=..., reverse=...): keys[i] is the key of s[i]
Sorted(s, keys, reverse) ==
    LET keyed == [i \in 1..Len(s) |-> [v |-> s[i], k |-> keys[i]]]
        out == SortKeyed(keyed, reverse)
    IN [i \in 1..Len(out) |-> out[i].v]

\* ------------------------------------------------------ find_compatible_pipes
OuterKey(p) == << OuterOf(p) >>

RECURSIVE CompatibleOf(_, _, _, _)
CompatibleOf(host_inner, host_outer, candidates, apply_ovality) ==
    IF candidates = << >> THEN << >>
    ELSE LET candidate == Head(candidates)
             guest_outer == OuterOf(candidate)
             result == validate_nesting_compatibility(host_inner, host_outer,
                                                      guest_outer, apply_ovality)
             rest == CompatibleOf(host_inner, host_outer, Tail(candidates), apply_ovality)
         IN IF guest_outer >= host_outer THEN rest
            ELSE IF result.is_valid
                 THEN << [clearance_result |-> result] @@ candidate >> \o rest
                 ELSE rest

\* compatible.sort(key=outer diameter, reverse=True)
SortedByOuter(compatible) ==
    Sorted(compatible, [i \in 1..Len(compatible) |-> OuterKey(compatible[i])], TRUE)

\* variant: every narrower candidate, the gap validation left out
find_narrower_pipes(host_pipe, candidate_pipes, apply_ovality) ==
    SortedByOuter(SelectSeq(candidate_pipes, LAMBDA c : OuterOf(c) < OuterOf(host_pipe)))

find_compatible_pipes(host_pipe, candidate_pipes, apply_ovality) ==
    SortedByOuter(CompatibleOf(host_pipe.inner_diameter_mm, OuterOf(host_pipe),
                               candidate_pipes, apply_ovality))

\* ------------------------------------------------------------------ NestedPipe
NestedPipe(pipe, lvl) == [pipe_data |-> pipe, nested_pipes |-> << >>, level |-> lvl]

outer_diameter(b) == OuterOf(b.pipe_data)

inner_diameter(b) == b.pipe_data.inner_diameter_mm

RECURSIVE total_nesting_levels(_)
total_nesting_levels(b) ==
    IF b.nested_pipes = << >> THEN 1
    ELSE LET RECURSIVE MaxDepth(_)
             MaxDepth(s) == IF s = << >> THEN 0
                            ELSE Max2(total_nesting_levels(Head(s)), MaxDepth(Tail(s)))
         IN 1 + MaxDepth(b.nested_pipes)

RECURSIVE get_all_pipes(_)
get_all_pipes(b) ==
    LET RECURSIVE Extend(_)
        Extend(s) == IF s = << >> THEN << >>
                     ELSE get_all_pipes(Head(s)) \o Extend(Tail(s))
    IN << b.pipe_data >> \o Extend(b.nested_pipes)

\* weight_calculator.calculate_bundle_weight over get_all_pipes()
RECURSIVE PipesWeight(_, _)
PipesWeight(ps, pipe_length_m) ==
    IF ps = << >> THEN 0
    ELSE Head(ps).weight_per_meter * pipe_length_m + PipesWeight(Tail(ps), pipe_length_m)

calculate_bundle_weight(b, pipe_length_m) == PipesWeight(get_all_pipes(b), pipe_length_m)

\* --------------------------------------------------------- nest_pipe_recursive
WeightKey(p) == << p.weight_per_meter >>

\* variant: the widest compatible pipe, whatever it weighs
BestFitWidest(compatible, best_fit, host_weight, prefer_lighter) ==
    IF compatible = << >> THEN best_fit
    ELSE LET widest == {i \in 1..Len(compatible) :
                           \A j \in 1..Len(compatible) :
                               compatible[i].dn_mm >= compatible[j].dn_mm}
         IN << compatible[CHOOSE i \in widest : \A j \in widest : i <= j] >>

\* the loop over compatible: best_fit is << >> (None) or << pipe >>
RECURSIVE BestFit(_, _, _, _)
BestFit(compatible, best_fit, host_weight, prefer_lighter) ==
    IF compatible = << >> THEN best_fit
    ELSE LET pipe == Head(compatible)
             rest == Tail(compatible)
         IN IF best_fit = << >> \/ pipe.dn_mm > best_fit[1].dn_mm
            THEN IF prefer_lighter /\ 2 * pipe.weight_per_meter > 3 * host_weight
                 THEN BestFit(rest, best_fit, host_weight, prefer_lighter)
                 ELSE BestFit(rest, << pipe >>, host_weight, prefer_lighter)
            ELSE BestFit(rest, best_fit, host_weight, prefer_lighter)

\* remaining.pop(i) for the first i with remaining[i].get("code") == target_code
RemoveByCode(remaining, target_code) ==
    LET hits == {i \in 1..Len(remaining) : remaining[i].code = target_code}
    IN IF hits = {} THEN remaining
       ELSE RemoveAt(remaining, CHOOSE i \in hits : \A j \in hits : i <= j)

\* compatible.sort(key=weight_per_meter) when prefer_lighter
SortedByWeight(compatible, prefer_lighter) ==
    IF prefer_lighter
    THEN Sorted(compatible, [i \in 1..Len(compatible) |-> WeightKey(compatible[i])], FALSE)
    ELSE compatible

\* host.nested_pipes.append(nested); return host, remaining
AppendNested(host, sub) ==
    [host |-> [host EXCEPT !.nested_pipes = Append(@, sub.host)],
     remaining |-> sub.remaining]

RECURSIVE nest_pipe_recursive(_, _, _, _, _)
RECURSIVE NestBestFit(_, _, _, _, _, _)
\* the function from "if not best_fit" on; an empty compatible list leaves
\* best_fit None, so both early returns of the source are the one test here
NestBestFit(host, available_pipes, max_levels, current_level, prefer_lighter, best_fit) ==
    IF best_fit = << >>
    THEN [host |-> host, remaining |-> available_pipes]
    ELSE AppendNested(host,
             nest_pipe_recursive(NestedPipe(best_fit[1], current_level),
                                 RemoveByCode(available_pipes, best_fit[1].code),
                                 max_levels, current_level + 1, prefer_lighter))

nest_pipe_recursive(host, available_pipes, max_levels, current_level, prefer_lighter) ==
    IF current_level >= max_levels \/ available_pipes = << >>
    THEN [host |-> host, remaining |-> available_pipes]
    ELSE NestBestFit(host, available_pipes, max_levels, current_level, prefer_lighter,
             BestFit(SortedByWeight(find_compatible_pipes(
                                        [inner_diameter_mm |-> inner_diameter(host),
                                         outer_diameter_mm |-> outer_diameter(host),
                                         dn_mm |-> 0],
                                        available_pipes, TRUE),
                                    prefer_lighter),
                     << >>, host.pipe_data.weight_per_meter, prefer_lighter))

\* ------------------------------------------------------- create_nested_bundles
DnKey(p) == << p.dn_mm >>

\* bundles.append(host), with the pool nest_pipe_recursive handed back
AppendBundle(bundles, r) == [bundles |-> Append(bundles, r.host), remaining |-> r.remaining]

\* variant: the host is offered the pool a second time
NestLoopBodyTwice(st, max_levels, prefer_lighter) ==
    LET r == nest_pipe_recursive(NestedPipe(Head(st.remaining), 0), Tail(st.remaining),
                                 max_levels, 1, prefer_lighter)
    IN AppendBundle(st.bundles,
                    nest_pipe_recursive(r.host, r.remaining, max_levels, 1, prefer_lighter))

\* one turn of "while remaining": pop the host, nest into it, append the bundle
NestLoopBody(st, max_levels, prefer_lighter) ==
    AppendBundle(st.bundles,
                 nest_pipe_recursive(NestedPipe(Head(st.remaining), 0), Tail(st.remaining),
                                     max_levels, 1, prefer_lighter))

RECURSIVE NestLoop(_, _, _)
NestLoop(st, max_levels, prefer_lighter) ==
    IF st.remaining = << >> THEN st
    ELSE NestLoop(NestLoopBody(st, max_levels, prefer_lighter), max_levels, prefer_lighter)

RECURSIVE CountPipes(_)
CountPipes(bundles) ==
    IF bundles = << >> THEN 0
    ELSE Len(get_all_pipes(Head(bundles))) + CountPipes(Tail(bundles))

NestingResult(bundles, total_pipes) ==
    [bundles |-> bundles,
     unpacked_pipes |-> << >>,
     total_pipes_processed |-> total_pipes,
     pipes_nested |-> CountPipes(bundles) - Len(bundles)]

create_nested_bundles(pipes, max_levels, prefer_lighter) ==
    IF pipes = << >> THEN NestingResult(<< >>, 0)
    ELSE NestingResult(
             NestLoop([bundles |-> << >>, remaining |-> Sorted(pipes, [i \in 1..Len(pipes) |-> DnKey(pipes[i])], TRUE)],
                      max_levels, prefer_lighter).bundles,
             Len(pipes))

\* ------------------------------------------------- estimate_mixed_stack_height
IntKey(d) == << d >>

\* the loop over sorted_diameters: rows holds the max diameter of each closed row
RECURSIVE StackRows(_, _, _, _, _)
StackRows(ds, rows, current_z, row_max_diameter, container_width_mm) ==
    IF ds = << >>
    THEN IF row_max_diameter > 0 THEN Append(rows, row_max_diameter) ELSE rows
    ELSE LET diameter == Head(ds)
             wrap == current_z + diameter > container_width_mm
             rows1 == IF wrap /\ row_max_diameter > 0
                      THEN Append(rows, row_max_diameter) ELSE rows
             z1 == IF wrap THEN 0 ELSE current_z
             m1 == IF wrap THEN 0 ELSE row_max_diameter
         IN StackRows(Tail(ds), rows1, z1 + diameter + GAP_MM, Max2(m1, diameter),
                      container_width_mm)

\* variant: every later row adds sqrt(3)/2 of its own maximum
RowsHeightOwnMax(rows) ==
    IF rows = << >> THEN 0
    ELSE HeightScale * rows[1]
         + SumSeq([i \in 1..(Len(rows) - 1) |-> 2 * rows[i + 1] * SQRT3_OVER_2_MILLI])

\* the height in units of 1/HeightScale mm: rows[0] plus, for every later row,
\* the average of the two row maxima times sqrt(3)/2
RowsHeight(rows) ==
    IF rows = << >> THEN 0
    ELSE HeightScale * rows[1]
         + SumSeq([i \in 1..(Len(rows) - 1) |->
                      (rows[i] + rows[i + 1]) * SQRT3_OVER_2_MILLI])

estimate_mixed_stack_height(diameters, container_width_mm) ==
    IF diameters = << >> THEN 0
    ELSE RowsHeight(StackRows(Sorted(diameters,
                                     [i \in 1..Len(diameters) |-> IntKey(diameters[i])],
                                     TRUE),
                              << >>, 0, 0, container_width_mm))

\* -------------------------------------------------------------------- TruckLoad
TruckLoad(n) == [truck_number |-> n, bundles |-> << >>]

total_weight_kg(truck, config) ==
    SumSeq([i \in 1..Len(truck.bundles) |->
               calculate_bundle_weight(truck.bundles[i], config.pipe_length_m)])

remaining_capacity_kg(truck, config) == config.max_payload_kg - total_weight_kg(truck, config)

can_fit_spatially(truck, bundle, config) ==
    LET diameters == [i \in 1..Len(truck.bundles) |-> outer_diameter(truck.bundles[i])]
                     \o << outer_diameter(bundle) >>
    IN estimate_mixed_stack_height(diameters, config.internal_width_mm)
           <= config.internal_height_mm * HeightScale

\* variant: the weight test alone
can_fit_by_weight(truck, bundle, config) ==
    calculate_bundle_weight(bundle, config.pipe_length_m) <= remaining_capacity_kg(truck, config)

\* variant: the spatial test alone
can_fit_by_space(truck, bundle, config) == can_fit_spatially(truck, bundle, config)

can_fit(truck, bundle, config) ==
    IF calculate_bundle_weight(bundle, config.pipe_length_m) > remaining_capacity_kg(truck, config)
    THEN FALSE
    ELSE can_fit_spatially(truck, bundle, config)

\* variant: the bundle is appended without asking can_fit
add_bundle_unchecked(truck, bundle, config) ==
    [truck |-> [truck EXCEPT !.bundles = Append(@, bundle)], ok |-> TRUE]

\* add_bundle: the truck afterwards, and whether the bundle was taken
add_bundle(truck, bundle, config) ==
    IF ~can_fit(truck, bundle, config)
    THEN [truck |-> truck, ok |-> FALSE]
    ELSE [truck |-> [truck EXCEPT !.bundles = Append(@, bundle)], ok |-> TRUE]

\* list.remove(x): drops the first element equal to x
RemoveFirst(s, x) ==
    LET hits == {i \in 1..Len(s) : s[i] = x}
    IN IF hits = {} THEN s ELSE RemoveAt(s, CHOOSE i \in hits : \A j \in hits : i <= j)

\* the index of the first truck of ts that can fit the bundle, 0 when none can
FirstFit(ts, bundle, config) ==
    LET fits == {i \in 1..Len(ts) : can_fit(ts[i], bundle, config)}
    IN IF fits = {} THEN 0 ELSE CHOOSE i \in fits : \A j \in fits : i <= j

PackingResult(ts, config) ==
    [trucks |-> ts,
     total_trucks_needed |-> Len(ts),
     total_weight_kg |-> SumSeq([i \in 1..Len(ts) |-> total_weight_kg(ts[i], config)])]

EmptyResult == [trucks |-> << >>, total_trucks_needed |-> 0, total_weight_kg |-> 0]

\* ------------------------------------------------------ _try_pack_with_n_trucks
DnWeightKey(p) == << p.dn_mm, p.weight_per_meter >>

\* variant: the pipe goes to the least loaded truck
RECURSIVE DistributeToLightest(_, _, _, _)
DistributeToLightest(ps, truck_pipes, truck_weights, config) ==
    IF ps = << >> THEN [ok |-> TRUE, truck_pipes |-> truck_pipes]
    ELSE LET pipe == Head(ps)
             pipe_weight == pipe.weight_per_meter * config.pipe_length_m
             room == {i \in 1..Len(truck_pipes) :
                         truck_weights[i] + pipe_weight <= config.max_payload_kg}
         IN IF room = {} THEN [ok |-> FALSE, truck_pipes |-> truck_pipes]
            ELSE LET i == CHOOSE i \in room :
                              \A j \in room : \/ truck_weights[i] < truck_weights[j]
                                               \/ (truck_weights[i] = truck_weights[j] /\ i <= j)
                 IN DistributeToLightest(Tail(ps),
                                         [truck_pipes EXCEPT ![i] = Append(@, pipe)],
                                         [truck_weights EXCEPT ![i] = @ + pipe_weight],
                                         config)

\* greedy distribution by weight; ok is FALSE once a pipe fits no truck
RECURSIVE Distribute(_, _, _, _)
Distribute(ps, truck_pipes, truck_weights, config) ==
    IF ps = << >> THEN [ok |-> TRUE, truck_pipes |-> truck_pipes]
    ELSE LET pipe == Head(ps)
             pipe_weight == pipe.weight_per_meter * config.pipe_length_m
             room == {i \in 1..Len(truck_pipes) :
                         truck_weights[i] + pipe_weight <= config.max_payload_kg}
         IN IF room = {} THEN [ok |-> FALSE, truck_pipes |-> truck_pipes]
            ELSE LET i == CHOOSE i \in room : \A j \in room : i <= j
                 IN Distribute(Tail(ps),
                               [truck_pipes EXCEPT ![i] = Append(@, pipe)],
                               [truck_weights EXCEPT ![i] = @ + pipe_weight],
                               config)

Singletons(ps) == [i \in 1..Len(ps) |-> NestedPipe(ps[i], 0)]

\* truck.add_bundle for each bundle in turn, r being what the last add_bundle
\* gave; the loop ends at the first bundle refused
RECURSIVE AddAll(_, _, _)
AddAll(r, bs, config) ==
    IF bs = << >> \/ ~r.ok THEN r
    ELSE AddAll(add_bundle(r.truck, Head(bs), config), Tail(bs), config)

\* the bundles of one truck's pipes
TruckBundles(pipes_for_truck, enable, max_levels) ==
    IF enable
    THEN create_nested_bundles(pipes_for_truck, max_levels, TRUE).bundles
    ELSE Singletons(pipes_for_truck)

\* trucks.append(truck), or the return of None when a bundle was refused
LoadOne(acc, r) ==
    IF r.ok THEN [ok |-> TRUE, trucks |-> Append(acc.trucks, r.truck)]
    ELSE [ok |-> FALSE, trucks |-> << >>]

\* variant: the trucks are numbered as enumerate counts, from 0
RECURSIVE LoadTrucksFromZero(_, _, _, _, _, _)
LoadTrucksFromZero(truck_pipes, i, acc, config, enable, max_levels) ==
    IF i > Len(truck_pipes) \/ ~acc.ok THEN acc
    ELSE IF truck_pipes[i] = << >>
         THEN LoadTrucksFromZero(truck_pipes, i + 1, acc, config, enable, max_levels)
         ELSE LoadTrucksFromZero(truck_pipes, i + 1,
                                 LoadOne(acc, AddAll([truck |-> TruckLoad(i - 1), ok |-> TRUE],
                                                     TruckBundles(truck_pipes[i], enable,
                                                                  max_levels),
                                                     config)),
                                 config, enable, max_levels)

\* the loop over truck_pipes, from index i on; acc.ok = FALSE has returned
RECURSIVE LoadTrucks(_, _, _, _, _, _)
LoadTrucks(truck_pipes, i, acc, config, enable, max_levels) ==
    IF i > Len(truck_pipes) \/ ~acc.ok THEN acc
    ELSE IF truck_pipes[i] = << >>
         THEN LoadTrucks(truck_pipes, i + 1, acc, config, enable, max_levels)
         ELSE LoadTrucks(truck_pipes, i + 1,
                         LoadOne(acc, AddAll([truck |-> TruckLoad(i), ok |-> TRUE],
                                            TruckBundles(truck_pipes[i], enable, max_levels),
                                            config)),
                         config, enable, max_levels)

\* the second half of the function, on the distribution d
LoadDistributed(d, config, enable, max_levels) ==
    IF ~d.ok THEN [ok |-> FALSE, trucks |-> << >>]
    ELSE LoadTrucks(d.truck_pipes, 1, [ok |-> TRUE, trucks |-> << >>], config, enable,
                    max_levels)

\* ok = FALSE stands for the None the source returns
try_pack_with_n_trucks(ps, config, n_trucks, enable, max_levels) ==
    LoadDistributed(Distribute(Sorted(ps, [k \in 1..Len(ps) |-> DnWeightKey(ps[k])], TRUE),
                               [i \in 1..n_trucks |-> << >>], [i \in 1..n_trucks |-> 0],
                               config),
                    config, enable, max_levels)

\* max(1, int(total_weight / max_payload + 0.99))
min_trucks_by_weight(ps, config) ==
    LET total_weight == PipesWeight(ps, config.pipe_length_m)
    IN Max2(1, (100 * total_weight + 99 * config.max_payload_kg)
                   \div (100 * config.max_payload_kg))

\* key=lambda b: b.calculate_bundle_weight(pipe_length_m), for each bundle of bs
BundleWeightKeys(bs, config) ==
    [i \in 1..Len(bs) |-> << calculate_bundle_weight(bs[i], config.pipe_length_m) >>]

\* ------------------------------------------------------------ _try_balance_pair
\* variant: the first bundle of sorted_bundles the target can fit
RECURSIVE FirstFitting(_, _, _, _)
FirstFitting(sorted_bundles, source, target, config) ==
    IF sorted_bundles = << >> THEN << >>
    ELSE IF can_fit(target, Head(sorted_bundles), config) THEN << Head(sorted_bundles) >>
         ELSE FirstFitting(Tail(sorted_bundles), source, target, config)

\* the first bundle of sorted_bundles the target can fit and whose move cuts
\* the weight difference of the pair to less than 0.9 of what it is
RECURSIVE BalanceCandidate(_, _, _, _)
BalanceCandidate(sorted_bundles, source, target, config) ==
    IF sorted_bundles = << >> THEN << >>
    ELSE LET bundle == Head(sorted_bundles)
             w == calculate_bundle_weight(bundle, config.pipe_length_m)
             new_source_weight == total_weight_kg(source, config) - w
             new_target_weight == total_weight_kg(target, config) + w
             old_diff == Abs(total_weight_kg(source, config) - total_weight_kg(target, config))
             new_diff == Abs(new_source_weight - new_target_weight)
         IN IF can_fit(target, bundle, config) /\ 10 * new_diff < 9 * old_diff
            THEN << bundle >>
            ELSE BalanceCandidate(Tail(sorted_bundles), source, target, config)

\* source.bundles.remove(bundle); target.bundles.append(bundle), when a bundle
\* was picked
MovePick(source, target, pick) ==
    IF pick = << >>
    THEN [source |-> source, target |-> target, moved |-> FALSE]
    ELSE [source |-> [source EXCEPT !.bundles = RemoveFirst(@, pick[1])],
          target |-> [target EXCEPT !.bundles = Append(@, pick[1])],
          moved |-> TRUE]

\* the function from the sort of source.bundles on
BalanceFrom(source, target, config) ==
    MovePick(source, target,
             BalanceCandidate(Sorted(source.bundles, BundleWeightKeys(source.bundles, config),
                                     FALSE),
                              source, target, config))

\* the pair as (truck_a, truck_b) again
Oriented(r, a_is_source) ==
    [a |-> IF a_is_source THEN r.source ELSE r.target,
     b |-> IF a_is_source THEN r.target ELSE r.source,
     moved |-> r.moved]

\* utilization is weight / max_payload * 100 with the same max_payload on both
\* sides, so the comparisons are made on weight * 100 against 15 * max_payload
BalanceWeighed(truck_a, truck_b, wa, wb, config) ==
    IF 100 * Abs(wa - wb) < 15 * config.max_payload_kg
    THEN [a |-> truck_a, b |-> truck_b, moved |-> FALSE]
    ELSE Oriented(BalanceFrom(IF wa > wb THEN truck_a ELSE truck_b,
                              IF wa > wb THEN truck_b ELSE truck_a, config),
                  wa > wb)

try_balance_pair(truck_a, truck_b, config) ==
    BalanceWeighed(truck_a, truck_b, total_weight_kg(truck_a, config),
                   total_weight_kg(truck_b, config), config)

\* ======================================================== first_fit_decreasing
\* The locals of first_fit_decreasing and of the rebalancing functions it calls
\* are one record; every operator below is one step of the code on that record.
\*   pc: "place" (the placement loop), "eliminate" (the loop of
\*   _rebalance_trucks), "optimize" (the loop of _optimize_distribution),
\*   "finish" (renumbering and statistics), "done" (returned).
FFDLocals(sb) ==
    [pc |-> "place", sorted_bundles |-> sb, trucks |-> << >>,
     iteration |-> 0, bundle_index |-> 0, bundles_to_remove |-> << >>,
     improved |-> FALSE, pair |-> << 0, 0 >>, result |-> << >>]

Front(ts) == SubSeq(ts, 1, Len(ts) - 1)

Last(ts) == ts[Len(ts)]

\* the early return for no bundles, else the sort by bundle weight descending
ffd_start(bs, config) ==
    IF bs = << >>
    THEN [FFDLocals(<< >>) EXCEPT !.pc = "done", !.result = << EmptyResult >>]
    ELSE FFDLocals(Sorted(bs, BundleWeightKeys(bs, config), TRUE))

\* the bundle goes to truck i, or for i = 0 a new truck is opened, handed the
\* bundle, and appended whatever add_bundle returned
PlaceAt(st, i, config) ==
    [st EXCEPT
        !.trucks = IF i # 0
                   THEN [st.trucks EXCEPT ![i].bundles = Append(@, Head(st.sorted_bundles))]
                   ELSE Append(st.trucks,
                               add_bundle(TruckLoad(Len(st.trucks) + 1),
                                          Head(st.sorted_bundles), config).truck),
        !.sorted_bundles = Tail(st.sorted_bundles)]

\* variant: every bundle opens a truck of its own
place_in_new_truck(st, config) == PlaceAt(st, 0, config)

\* one turn of the placement loop
place(st, config) ==
    PlaceAt(st, FirstFit(st.trucks, Head(st.sorted_bundles), config), config)

\* _rebalance_trucks up to the start of its loop
rebalance_enter(st) ==
    IF Len(st.trucks) <= 1
    THEN [st EXCEPT !.pc = "finish"]
    ELSE [st EXCEPT !.pc = "eliminate", !.iteration = 1, !.bundle_index = 1]

\* the bundle is moved to truck i, or for i = 0 stays where it is
MoveTo(st, i, bundle) ==
    IF i # 0
    THEN [st EXCEPT !.trucks = [st.trucks EXCEPT ![i].bundles = Append(@, bundle)],
                    !.bundles_to_remove = Append(@, bundle),
                    !.improved = TRUE,
                    !.bundle_index = @ + 1]
    ELSE [st EXCEPT !.bundle_index = @ + 1]

\* one turn of "for bundle in last_truck.bundles"
eliminate_scan(st, config) ==
    MoveTo(st,
           FirstFit(Front(st.trucks), Last(st.trucks).bundles[st.bundle_index], config),
           Last(st.trucks).bundles[st.bundle_index])

RECURSIVE RemoveAll(_, _)
RemoveAll(s, xs) == IF xs = << >> THEN s ELSE RemoveAll(RemoveFirst(s, Head(xs)), Tail(xs))

\* variant: the last truck is dropped whether or not it is empty
eliminate_drop_last(st) ==
    LET trucks1 == Front(st.trucks)
        st1 == [st EXCEPT !.trucks = trucks1, !.bundles_to_remove = << >>, !.improved = FALSE]
    IN IF Len(trucks1) > 1 /\ st.iteration < ELIMINATE_MAX_ITERATIONS
       THEN [st1 EXCEPT !.iteration = @ + 1, !.bundle_index = 1]
       ELSE IF Len(trucks1) <= 1
            THEN [st1 EXCEPT !.bundle_index = 0, !.pc = "finish"]
            ELSE [st1 EXCEPT !.bundle_index = 0, !.pc = "optimize", !.iteration = 1,
                             !.pair = << 1, 2 >>]

\* the rest of an elimination turn: take the moved bundles off the last truck,
\* drop the truck when it is empty, and decide whether to loop; on leaving the
\* loop, _optimize_distribution up to the start of its loop
eliminate_finish(st) ==
    LET last_truck == [Last(st.trucks) EXCEPT !.bundles = RemoveAll(@, st.bundles_to_remove)]
        emptied == last_truck.bundles = << >>
        trucks1 == IF emptied THEN Front(st.trucks) ELSE Append(Front(st.trucks), last_truck)
        improved1 == st.improved \/ emptied
        leave == \/ emptied /\ Len(trucks1) <= 1
                 \/ ~improved1
                 \/ st.iteration >= ELIMINATE_MAX_ITERATIONS
        st1 == [st EXCEPT !.trucks = trucks1, !.bundles_to_remove = << >>, !.improved = FALSE]
    IN IF ~leave
       THEN [st1 EXCEPT !.iteration = @ + 1, !.bundle_index = 1]
       ELSE IF Len(trucks1) <= 1
            THEN [st1 EXCEPT !.bundle_index = 0, !.pc = "finish"]
            ELSE [st1 EXCEPT !.bundle_index = 0, !.pc = "optimize", !.iteration = 1,
                             !.pair = << 1, 2 >>]

\* the loop control that follows a call of _try_balance_pair that gave r
BalanceNext(st, r) ==
    LET i == st.pair[1]
        j == st.pair[2]
        n == Len(st.trucks)
        improved1 == st.improved \/ r.moved
        st1 == [st EXCEPT !.trucks = [st.trucks EXCEPT ![i] = r.a, ![j] = r.b]]
    IN IF ~(j = n /\ i = n - 1)
       THEN [st1 EXCEPT !.pair = IF j < n THEN << i, j + 1 >> ELSE << i + 1, i + 2 >>,
                        !.improved = improved1]
       ELSE IF improved1 /\ st.iteration < OPTIMIZE_MAX_ITERATIONS
            THEN [st1 EXCEPT !.pair = << 1, 2 >>, !.iteration = @ + 1, !.improved = FALSE]
            ELSE [st1 EXCEPT !.pair = << 0, 0 >>, !.improved = FALSE, !.pc = "finish"]

\* one call of _try_balance_pair, and the loop control that follows it
balance_pair(st, config) ==
    BalanceNext(st, try_balance_pair(st.trucks[st.pair[1]], st.trucks[st.pair[2]], config))

\* renumbering and the PackingResult
finish(st, config) ==
    LET ts == [i \in 1..Len(st.trucks) |-> [st.trucks[i] EXCEPT !.truck_number = i]]
    IN [st EXCEPT !.trucks = ts, !.result = << PackingResult(ts, config) >>, !.pc = "done"]

\* the step the code takes next from st
FFDStep(st, config) ==
    CASE st.pc = "place" /\ st.sorted_bundles # << >> -> place(st, config)
      [] st.pc = "place" /\ st.sorted_bundles = << >> -> rebalance_enter(st)
      [] st.pc = "eliminate" /\ st.bundle_index <= Len(Last(st.trucks).bundles) ->
             eliminate_scan(st, config)
      [] st.pc = "eliminate" /\ st.bundle_index > Len(Last(st.trucks).bundles) ->
             eliminate_finish(st)
      [] st.pc = "optimize" -> balance_pair(st, config)
      [] st.pc = "finish" -> finish(st, config)

RECURSIVE FFDRun(_, _)
FFDRun(st, config) == IF st.pc = "done" THEN st ELSE FFDRun(FFDStep(st, config), config)

\* the PackingResult first_fit_decreasing returns for the bundles
first_fit_decreasing(bs, config) == FFDRun(ffd_start(bs, config), config).result[1]

\* ============================================================ axle loads
\* Weights are whole kg and positions whole decimetres. A quotient the code
\* returns unrounded is the pair << numerator, denominator >>, so nothing is
\* divided where the code does not round.
KINGPIN_POSITION_DM == 15
OPTIMAL_COG_MIN_DM == 55
OPTIMAL_COG_MAX_DM == 75
MAX_AXLE_WEIGHT_MOTOR_KG == 11500
MAX_AXLE_WEIGHT_TRAILER_KG == 8000
TRAILER_LENGTH_DM == 136
AXLE_GROUP_POSITION_DM == 121
REAR_OVERHANG_DM == 15
NUM_TRAILER_AXLES == 3

\* variant: a half is rounded up
RoundHalfUp(num, den) == (2 * num + den) \div (2 * den)

\* round(num / den, 0) for den > 0: to the nearest integer, a half to the even one
RoundHalfEven(num, den) ==
    LET q == num \div den
        r == num % den
    IN IF 2 * r < den THEN q
       ELSE IF 2 * r > den THEN q + 1
       ELSE IF q % 2 = 0 THEN q ELSE q + 1

\* variant: the mean of the positions, the weights left out
mean_position(items) ==
    IF items = << >> \/ SumSeq([i \in 1..Len(items) |-> items[i].weight_kg]) = 0
    THEN [cog_x_m |-> << 0, 1 >>, cog_from_kingpin_m |-> << 0, 1 >>, total_weight_kg |-> 0,
          is_optimal |-> TRUE, deviation_from_optimal_m |-> << 0, 1 >>,
          recommendation |-> "No load"]
    ELSE LET n == Len(items)
             sum == SumSeq([i \in 1..n |-> items[i].x_position_m])
         IN [cog_x_m |-> << sum, n >>,
             cog_from_kingpin_m |-> << sum - KINGPIN_POSITION_DM * n, n >>,
             total_weight_kg |-> SumSeq([i \in 1..n |-> items[i].weight_kg]),
             is_optimal |-> OPTIMAL_COG_MIN_DM * n <= sum /\ sum <= OPTIMAL_COG_MAX_DM * n,
             deviation_from_optimal_m |-> << sum - 65 * n, n >>,
             recommendation |-> "Center of gravity is in optimal range"]

\* items is a list of LoadItem; total_weight >= 0, as the weights are
calculate_center_of_gravity(items) ==
    LET total_weight == SumSeq([i \in 1..Len(items) |-> items[i].weight_kg])
        weighted_sum == SumSeq([i \in 1..Len(items) |->
                                   items[i].weight_kg * items[i].x_position_m])
        is_optimal == /\ OPTIMAL_COG_MIN_DM * total_weight <= weighted_sum
                      /\ weighted_sum <= OPTIMAL_COG_MAX_DM * total_weight
        none == [cog_x_m |-> << 0, 1 >>, cog_from_kingpin_m |-> << 0, 1 >>,
                 total_weight_kg |-> 0, is_optimal |-> TRUE,
                 deviation_from_optimal_m |-> << 0, 1 >>, recommendation |-> "No load"]
    IN IF items = << >> THEN none
       ELSE IF total_weight = 0 THEN [none EXCEPT !.recommendation = "Zero weight load"]
       ELSE [cog_x_m |-> << weighted_sum, total_weight >>,
             cog_from_kingpin_m |->
                 << weighted_sum - KINGPIN_POSITION_DM * total_weight, total_weight >>,
             total_weight_kg |-> total_weight,
             is_optimal |-> is_optimal,
             deviation_from_optimal_m |->
                 << 2 * weighted_sum - (OPTIMAL_COG_MIN_DM + OPTIMAL_COG_MAX_DM) * total_weight,
                    2 * total_weight >>,
             recommendation |->
                 IF is_optimal THEN "Center of gravity is in optimal range"
                 ELSE IF weighted_sum < OPTIMAL_COG_MIN_DM * total_weight
                      THEN "Load is too far forward"
                      ELSE "Load is too far back"]

\* variant: the moment balance without the test of the lever arm
axle_loads_unguarded(total_weight, cog_x_m, trailer_length_m, kingpin_position_m, axle_position_m) ==
    LET axle_to_kingpin == (IF axle_position_m = << >>
                            THEN trailer_length_m - REAR_OVERHANG_DM
                            ELSE axle_position_m[1]) - kingpin_position_m
        axle_load == total_weight * (cog_x_m - kingpin_position_m)
        kingpin_load == total_weight * axle_to_kingpin - axle_load
    IN [kingpin_load_kg |-> << kingpin_load, axle_to_kingpin >>,
        axle_group_load_kg |-> << axle_load, axle_to_kingpin >>,
        kingpin_valid |-> TRUE, axle_valid |-> TRUE, total_valid |-> TRUE,
        messages |-> << "Load distribution is within legal limits" >>]

\* axle_position_m is << >> (None) or << position >>
calculate_axle_loads(total_weight, cog_x_m, trailer_length_m, kingpin_position_m, axle_position_m) ==
    LET axle_to_kingpin == (IF axle_position_m = << >>
                            THEN trailer_length_m - REAR_OVERHANG_DM
                            ELSE axle_position_m[1]) - kingpin_position_m
        \* axle_load and kingpin_load, times axle_to_kingpin
        axle_load == total_weight * (cog_x_m - kingpin_position_m)
        kingpin_load == total_weight * axle_to_kingpin - axle_load
        kingpin_valid == kingpin_load <= MAX_AXLE_WEIGHT_MOTOR_KG * axle_to_kingpin
        axle_valid == axle_load <= MAX_AXLE_WEIGHT_TRAILER_KG * 3 * axle_to_kingpin
    IN IF axle_to_kingpin <= 0
       THEN [kingpin_load_kg |-> << total_weight, 1 >>,
             axle_group_load_kg |-> << 0, 1 >>,
             kingpin_valid |-> FALSE, axle_valid |-> TRUE, total_valid |-> FALSE,
             messages |-> << "Invalid axle configuration" >>]
       ELSE [kingpin_load_kg |-> << kingpin_load, axle_to_kingpin >>,
             axle_group_load_kg |-> << axle_load, axle_to_kingpin >>,
             kingpin_valid |-> kingpin_valid,
             axle_valid |-> axle_valid,
             total_valid |-> kingpin_valid /\ axle_valid,
             messages |->
                 (IF kingpin_valid THEN << >> ELSE << "Kingpin overload" >>)
                 \o (IF axle_valid THEN << >> ELSE << "Axle group overload" >>)
                 \o (IF kingpin_valid /\ axle_valid
                     THEN << "Load distribution is within legal limits" >> ELSE << >>)]

RECURSIVE GCD(_, _)
GCD(a, b) == IF b = 0 THEN a ELSE GCD(b, a % b)

\* round(load / max_load * 100, 1) in tenths of a percent, load being the pair
\* << num, den >>; the fraction 1000 / max_load is reduced before it is applied
UtilizationPct(num, den, max_load) ==
    RoundHalfEven(num * (1000 \div GCD(1000, max_load)),
                  den * (max_load \div GCD(1000, max_load)))

\* AxleConfig()
AxleConfig ==
    [kingpin_position_m |-> KINGPIN_POSITION_DM,
     trailer_length_m |-> TRAILER_LENGTH_DM,
     axle_group_position_m |-> AXLE_GROUP_POSITION_DM,
     num_trailer_axles |-> NUM_TRAILER_AXLES,
     max_kingpin_load_kg |-> MAX_AXLE_WEIGHT_MOTOR_KG,
     max_per_axle_load_kg |-> MAX_AXLE_WEIGHT_TRAILER_KG]

\* the loads are returned rounded to whole kg, the utilizations to tenths of a
\* percent; violation_message is the list of the violations joined by "; "
calculate_axle_distribution(total_cargo_weight_kg, center_of_gravity_m, config) ==
    LET axle_to_kingpin == config.axle_group_position_m - config.kingpin_position_m
        \* axle_group_load and kingpin_load, times axle_to_kingpin
        axle_group_load == total_cargo_weight_kg
                               * (center_of_gravity_m - config.kingpin_position_m)
        kingpin_load == total_cargo_weight_kg * axle_to_kingpin - axle_group_load
        max_axle_group == config.max_per_axle_load_kg * config.num_trailer_axles
    IN IF axle_to_kingpin <= 0
       THEN [kingpin_load_kg |-> total_cargo_weight_kg,
             axle_group_load_kg |-> 0,
             per_axle_load_kg |-> 0,
             kingpin_utilization_pct |-> 1000,
             axle_utilization_pct |-> 0,
             is_valid |-> FALSE,
             violation_message |-> << "Invalid axle configuration" >>]
       ELSE [kingpin_load_kg |-> RoundHalfEven(kingpin_load, axle_to_kingpin),
             axle_group_load_kg |-> RoundHalfEven(axle_group_load, axle_to_kingpin),
             per_axle_load_kg |->
                 RoundHalfEven(axle_group_load, axle_to_kingpin * config.num_trailer_axles),
             kingpin_utilization_pct |->
                 UtilizationPct(kingpin_load, axle_to_kingpin, config.max_kingpin_load_kg),
             axle_utilization_pct |->
                 UtilizationPct(axle_group_load, axle_to_kingpin, max_axle_group),
             is_valid |->
                 /\ kingpin_load <= config.max_kingpin_load_kg * axle_to_kingpin
                 /\ axle_group_load <= max_axle_group * axle_to_kingpin
                 /\ axle_group_load <= config.max_per_axle_load_kg
                                           * axle_to_kingpin * config.num_trailer_axles,
             violation_message |->
                 (IF kingpin_load > config.max_kingpin_load_kg * axle_to_kingpin
                  THEN << "Kingpin overload" >> ELSE << >>)
                 \o (IF axle_group_load > max_axle_group * axle_to_kingpin
                     THEN << "Axle group overload" >> ELSE << >>)
                 \o (IF axle_group_load > config.max_per_axle_load_kg
                                              * axle_to_kingpin * config.num_trailer_axles
                     THEN << "Per-axle overload" >> ELSE << >>)]

\* check_axle_distribution of the transport compliance validator: the weights
\* are returned rounded to whole kg
check_axle_distribution(cargo_weight_kg, center_of_gravity_m, trailer_length_m, kingpin_position_m) ==
    LET axle_group_position_m == trailer_length_m - REAR_OVERHANG_DM
        total_lever == axle_group_position_m - kingpin_position_m
        \* the two weights as << numerator, denominator >>
        weight_on_axle ==
            IF total_lever > 0
            THEN << cargo_weight_kg * (center_of_gravity_m - kingpin_position_m), total_lever >>
            ELSE << cargo_weight_kg, 2 >>
        weight_on_kingpin ==
            IF total_lever > 0
            THEN << cargo_weight_kg * total_lever - weight_on_axle[1], total_lever >>
            ELSE << cargo_weight_kg, 2 >>
        kingpin_valid == weight_on_kingpin[1] <= MAX_AXLE_WEIGHT_MOTOR_KG * weight_on_kingpin[2]
        axle_valid == weight_on_axle[1] <= MAX_AXLE_WEIGHT_TRAILER_KG * 3 * weight_on_axle[2]
    IN [is_valid |-> kingpin_valid /\ axle_valid,
        kingpin_weight_kg |-> RoundHalfEven(weight_on_kingpin[1], weight_on_kingpin[2]),
        kingpin_max_kg |-> MAX_AXLE_WEIGHT_MOTOR_KG,
        kingpin_valid |-> kingpin_valid,
        axle_group_weight_kg |-> RoundHalfEven(weight_on_axle[1], weight_on_axle[2]),
        axle_group_max_kg |-> MAX_AXLE_WEIGHT_TRAILER_KG * 3,
        axle_valid |-> axle_valid,
        center_of_gravity_m |-> center_of_gravity_m,
        optimal_cog_range_m |-> << OPTIMAL_COG_MIN_DM, OPTIMAL_COG_MAX_DM >>]

\* ============================================================ loading plan
\* Percentages are in tenths of a percent, as round(x, 1) leaves them.
HEAVY_EXTRACTION_THRESHOLD_KG == 2000

\* the early return, the loop over num_trucks and the fallback, in one piece
pack_pipes_into_trucks(ps, config, enable, max_levels) ==
    LET first == min_trucks_by_weight(ps, config)
        RECURSIVE Attempt(_)
        Attempt(n) ==
            IF n >= first + STRATEGY_B_ATTEMPTS
            THEN first_fit_decreasing(
                     IF enable THEN create_nested_bundles(ps, max_levels, TRUE).bundles
                     ELSE Singletons(ps), config)
            ELSE LET r == try_pack_with_n_trucks(ps, config, n, enable, max_levels)
                 IN IF r.ok THEN PackingResult(r.trucks, config) ELSE Attempt(n + 1)
    IN IF ps = << >> THEN EmptyResult ELSE Attempt(first)

\* every item has its weight_per_meter and its quantity
calculate_order_total_weight(order_items, length_m) ==
    SumSeq([i \in 1..Len(order_items) |->
               order_items[i].weight_per_meter * length_m * order_items[i].quantity])

check_weight_limits(total, max_payload_kg) ==
    [is_valid |-> total <= max_payload_kg,
     total_weight_kg |-> total,
     max_payload_kg |-> max_payload_kg,
     utilization_pct |-> UtilizationPct(total, 1, max_payload_kg),
     remaining_kg |-> Max2(0, max_payload_kg - total),
     overweight_kg |-> Max2(0, total - max_payload_kg)]

\* variant: a bundle of exactly the threshold weight is flagged too
RECURSIVE bundle_to_dict_inclusive(_, _)
bundle_to_dict_inclusive(bundle, length_m) ==
    [outer_pipe |-> bundle.pipe_data,
     nested_pipes |-> [i \in 1..Len(bundle.nested_pipes) |->
                          bundle_to_dict_inclusive(bundle.nested_pipes[i], length_m)],
     nesting_levels |-> total_nesting_levels(bundle),
     total_pipes |-> Len(get_all_pipes(bundle)),
     bundle_weight_kg |-> calculate_bundle_weight(bundle, length_m),
     requires_heavy_extraction |->
         calculate_bundle_weight(bundle, length_m) >= HEAVY_EXTRACTION_THRESHOLD_KG]

RECURSIVE bundle_to_dict(_, _)
bundle_to_dict(bundle, length_m) ==
    [outer_pipe |-> bundle.pipe_data,
     nested_pipes |-> [i \in 1..Len(bundle.nested_pipes) |->
                          bundle_to_dict(bundle.nested_pipes[i], length_m)],
     nesting_levels |-> total_nesting_levels(bundle),
     total_pipes |-> Len(get_all_pipes(bundle)),
     bundle_weight_kg |-> calculate_bundle_weight(bundle, length_m),
     requires_heavy_extraction |->
         calculate_bundle_weight(bundle, length_m) > HEAVY_EXTRACTION_THRESHOLD_KG]

truck_load_to_dict(truck, config) ==
    [truck_number |-> truck.truck_number,
     total_weight_kg |-> total_weight_kg(truck, config),
     current_payload_kg |-> total_weight_kg(truck, config),
     weight_utilization_pct |->
         UtilizationPct(total_weight_kg(truck, config), 1, config.max_payload_kg),
     remaining_capacity_kg |-> remaining_capacity_kg(truck, config),
     max_payload_kg |-> config.max_payload_kg,
     bundle_count |-> Len(truck.bundles),
     bundles |-> [i \in 1..Len(truck.bundles) |->
                     bundle_to_dict(truck.bundles[i], config.pipe_length_m)]]

\* the LoadingPlanResult; a warning is the record of what its text says
calculate_loading_plan(order_items, config, enable, max_levels) ==
    LET RECURSIVE Expand(_)
        Expand(items) ==
            IF items = << >> THEN << >>
            ELSE [k \in 1..Head(items).quantity |->
                     [Head(items) EXCEPT !.outer_diameter_mm = Head(items).dn_mm]]
                 \o Expand(Tail(items))
        ps == Expand(order_items)
        total_weight == calculate_order_total_weight(order_items, config.pipe_length_m)
        weight_limits == check_weight_limits(total_weight, config.max_payload_kg)
        packing_result == pack_pipes_into_trucks(ps, config, enable, max_levels)
        ts == [i \in 1..Len(packing_result.trucks) |->
                  truck_load_to_dict(packing_result.trucks[i], config)]
        RECURSIVE Heavy(_, _)
        Heavy(t, k) ==
            IF t > Len(ts) THEN << >>
            ELSE IF k > Len(ts[t].bundles) THEN Heavy(t + 1, 1)
            ELSE (IF ts[t].bundles[k].requires_heavy_extraction
                  THEN << [kind |-> "heavy", truck_number |-> ts[t].truck_number,
                           code |-> ts[t].bundles[k].outer_pipe.code,
                           weight_kg |-> ts[t].bundles[k].bundle_weight_kg] >>
                  ELSE << >>)
                 \o Heavy(t, k + 1)
        Levels(t) == {1} \cup {ts[t].bundles[k].nesting_levels : k \in 1..Len(ts[t].bundles)}
        MaxLevels(t) == CHOOSE l \in Levels(t) : \A o \in Levels(t) : o <= l
        lines == Max2(1, Len(order_items))
    IN [total_pipes |-> Len(ps),
        total_weight_kg |-> total_weight,
        trucks_needed |-> Len(ts),
        trucks |-> ts,
        nesting_stats |->
            [nesting_enabled |-> enable,
             bundles_with_nesting |->
                 SumSeq([t \in 1..Len(ts) |->
                            Cardinality({k \in 1..Len(ts[t].bundles) :
                                            ts[t].bundles[k].nesting_levels > 1})]),
             max_levels_used |->
                 IF ts = << >> THEN 0
                 ELSE CHOOSE l \in {MaxLevels(t) : t \in 1..Len(ts)} :
                          \A t \in 1..Len(ts) : MaxLevels(t) <= l,
             estimated_space_reduction_pct |->
                 IF enable THEN RoundHalfEven((lines - Len(ts)) * 1000, lines) ELSE 0],
        weight_limits |-> weight_limits,
        warnings |->
            Heavy(1, 1)
            \o (IF weight_limits.is_valid THEN << >>
                ELSE << [kind |-> "overweight",
                         overweight_kg |-> weight_limits.overweight_kg] >>)]

\* ===================================================================== state
VARIABLES
    pipes,               \* the caller's pipe list
    truck_config,        \* the caller's truck profile
    pipe_length_m,
    enable_nesting,
    max_nesting_levels,  \* max_levels of the nesting engine
    prefer_lighter,
    pc,                  \* position of the run
    remaining,           \* create_nested_bundles: pipes not yet in a bundle
    bundles,             \* create_nested_bundles: bundles built so far
    nesting_result,      \* << >> or << NestingResult >>
    min_trucks,          \* min_trucks_by_weight of the run
    num_trucks,          \* Strategy B: the n being attempted
    sorted_bundles,      \* first_fit_decreasing: bundles not yet placed
    trucks,              \* first_fit_decreasing: the trucks list
    iteration,           \* loop counter of the running rebalancing loop
    bundle_index,        \* _rebalance_trucks: position in last_truck.bundles
    bundles_to_remove,
    improved,
    pair,                \* _optimize_distribution: << i, j >> of the next pair
    result,              \* << >> or << PackingResult >>
    run,                 \* 1 for the first call, 2 for the repeated call
    first_call,          \* << >> or << [pipes, result] >> of the first call
    call,                \* << >> or << [fn, ...] >>: a direct call of one function
    ret                  \* << >> or << value >>: what that call returned

vars == << pipes, truck_config, pipe_length_m, enable_nesting, max_nesting_levels,
           prefer_lighter, pc, remaining, bundles, nesting_result, min_trucks,
           num_trucks, sorted_bundles, trucks, iteration, bundle_index,
           bundles_to_remove, improved, pair, result, run, first_call, call, ret >>

inputVars == << truck_config, pipe_length_m, enable_nesting, max_nesting_levels,
                prefer_lighter >>

nestVars == << remaining, bundles, nesting_result >>

callVars == << call, ret >>

ffdVars == << sorted_bundles, trucks, iteration, bundle_index, bundles_to_remove,
              improved, pair >>

Config == [pipe_length_m |-> pipe_length_m] @@ truck_config

\* ===================================================================== inputs
PIPE_LENGTH_M == 12

\* three catalogue pipes and one heavy pipe, the last two without a code
Catalogue ==
    { Pipe(1, 800, 738, 75),
      Pipe(2, 630, 581, 46),
      Pipe(0, 630, 515, 120),
      Pipe(0, 315, 290, 12) }

PipeLists == UNION { [1..n -> Catalogue] : n \in 0..MaxLen }

\* payloads and cross-sections small enough that lists of MaxLen pipes run
\* into the weight limit, the height limit and the row width
TruckProfiles ==
    { [max_payload_kg |-> p, internal_height_mm |-> d[1], internal_width_mm |-> d[2]] :
          p \in {1000, 2600}, d \in { << 700, 2480 >>, << 1400, 1300 >> } }

\* enable_nesting and max_nesting_levels of a call
NestingOptions == { << FALSE, 4 >>, << TRUE, 2 >>, << TRUE, 4 >> }

\* the seven PN6 pipes of the test fixture (bores and weights in whole mm and kg/m)
sample_pipes ==
    << Pipe(1, 800, 738, 75), Pipe(2, 630, 581, 46), Pipe(3, 500, 461, 29),
       Pipe(4, 400, 369, 19), Pipe(5, 315, 290, 12), Pipe(7, 200, 184, 5),
       Pipe(12, 110, 101, 1) >>

\* the 24 t truck of the test fixture, which is also TruckLoad's default profile
DefaultTruck ==
    [max_payload_kg |-> 24000, internal_height_mm |-> 2700, internal_width_mm |-> 2480]

\* max_nesting_levels of calculate_loading_plan when the caller passes none
DEFAULT_MAX_NESTING_LEVELS == 4

Idle ==
    /\ remaining = << >> /\ bundles = << >> /\ nesting_result = << >>
    /\ min_trucks = 0 /\ num_trucks = 0
    /\ sorted_bundles = << >> /\ trucks = << >>
    /\ iteration = 0 /\ bundle_index = 0 /\ bundles_to_remove = << >>
    /\ improved = FALSE /\ pair = << 0, 0 >>
    /\ result = << >>

Init ==
    /\ \/ /\ pipes \in PipeLists
          /\ truck_config \in TruckProfiles
          /\ \E o \in NestingOptions : enable_nesting = o[1] /\ max_nesting_levels = o[2]
       \/ /\ pipes = sample_pipes
          /\ truck_config = DefaultTruck
          /\ enable_nesting = TRUE
          /\ max_nesting_levels \in {DEFAULT_MAX_NESTING_LEVELS, MAX_NESTING_LEVELS}
    /\ pipe_length_m = PIPE_LENGTH_M
    /\ prefer_lighter = TRUE
    /\ pc = "start"
    /\ Idle
    /\ call = << >> /\ ret = << >>
    /\ run = 1
    /\ first_call = << >>

\* ============================================================ nesting engine
\* create_nested_bundles up to the start of its while loop
NestStart ==
    /\ pc = "nest_start"
    /\ IF pipes = << >>
       THEN /\ nesting_result' = << NestingResult(<< >>, 0) >>
            /\ pc' = "nest_done"
            /\ UNCHANGED << remaining, bundles >>
       ELSE /\ remaining' = Sorted(pipes, [i \in 1..Len(pipes) |-> DnKey(pipes[i])], TRUE)
            /\ bundles' = << >>
            /\ pc' = "nest_loop"
            /\ UNCHANGED nesting_result
    /\ UNCHANGED << pipes, inputVars, callVars, min_trucks, num_trucks, ffdVars, result, run, first_call >>

\* variant: the recursion is started one level late
NestHostOneDeeper ==
    /\ pc = "nest_loop"
    /\ remaining # << >>
    /\ \E st \in { NestLoopBody([bundles |-> bundles, remaining |-> remaining],
                                 max_nesting_levels + 1, prefer_lighter) } :
           /\ bundles' = st.bundles
           /\ remaining' = st.remaining
    /\ UNCHANGED << pipes, inputVars, callVars, pc, nesting_result, min_trucks, num_trucks, ffdVars,
                    result, run, first_call >>

\* one turn of the while loop
NestHost ==
    /\ pc = "nest_loop"
    /\ remaining # << >>
    /\ \E st \in { NestLoopBody([bundles |-> bundles, remaining |-> remaining],
                                 max_nesting_levels, prefer_lighter) } :
           /\ bundles' = st.bundles
           /\ remaining' = st.remaining
    /\ UNCHANGED << pipes, inputVars, callVars, pc, nesting_result, min_trucks, num_trucks, ffdVars,
                    result, run, first_call >>

\* the statistics and the return
NestFinish ==
    /\ pc = "nest_loop"
    /\ remaining = << >>
    /\ nesting_result' = << NestingResult(bundles, Len(pipes)) >>
    /\ pc' = "nest_done"
    /\ UNCHANGED << pipes, inputVars, callVars, remaining, bundles, min_trucks, num_trucks, ffdVars,
                    result, run, first_call >>

\* ============================================================ pack_pipes_into_trucks
\* variant: the caller's list is sorted in place
StartSortingInPlace ==
    /\ pc = "start"
    /\ pipes' = Sorted(pipes, [i \in 1..Len(pipes) |-> DnWeightKey(pipes[i])], TRUE)
    /\ IF pipes = << >>
       THEN /\ result' = << EmptyResult >>
            /\ pc' = "done"
            /\ UNCHANGED << min_trucks, num_trucks >>
       ELSE /\ min_trucks' = min_trucks_by_weight(pipes, Config)
            /\ num_trucks' = min_trucks'
            /\ pc' = "strategy_b"
            /\ UNCHANGED result
    /\ UNCHANGED << inputVars, callVars, nestVars, ffdVars, run, first_call >>

\* the early return for no pipes, else the weight estimate that starts Strategy B
Start ==
    /\ pc = "start"
    /\ IF pipes = << >>
       THEN /\ result' = << EmptyResult >>
            /\ pc' = "done"
            /\ UNCHANGED << min_trucks, num_trucks >>
       ELSE /\ min_trucks' = min_trucks_by_weight(pipes, Config)
            /\ num_trucks' = min_trucks'
            /\ pc' = "strategy_b"
            /\ UNCHANGED result
    /\ UNCHANGED << pipes, inputVars, callVars, nestVars, ffdVars, run, first_call >>

\* one turn of the loop over num_trucks
StrategyB ==
    /\ pc = "strategy_b"
    /\ \E r \in { try_pack_with_n_trucks(pipes, Config, num_trucks, enable_nesting,
                                          max_nesting_levels) } :
           IF r.ok
           THEN /\ result' = << PackingResult(r.trucks, Config) >>
                /\ pc' = "done"
                /\ UNCHANGED num_trucks
           ELSE /\ IF num_trucks + 1 < min_trucks + STRATEGY_B_ATTEMPTS
                   THEN num_trucks' = num_trucks + 1 /\ pc' = "strategy_b"
                   ELSE num_trucks' = num_trucks /\ pc' = "fallback"
                /\ UNCHANGED result
    /\ UNCHANGED << pipes, inputVars, callVars, nestVars, min_trucks, ffdVars, run, first_call >>

\* variant: the nesting pass whatever enable_nesting says
FallbackAlwaysNests ==
    /\ pc = "fallback"
    /\ pc' = "nest_start"
    /\ UNCHANGED << pipes, inputVars, callVars, nestVars, min_trucks, num_trucks,
                    ffdVars, result, run, first_call >>

\* the fallback: one nesting pass over all pipes, or one bundle per pipe
Fallback ==
    /\ pc = "fallback"
    /\ IF enable_nesting
       THEN pc' = "nest_start" /\ UNCHANGED bundles
       ELSE pc' = "nest_done" /\ bundles' = Singletons(pipes)
    /\ UNCHANGED << pipes, inputVars, callVars, remaining, nesting_result, min_trucks, num_trucks,
                    ffdVars, result, run, first_call >>

\* ============================================================ first_fit_decreasing
FFDState ==
    [pc |-> pc, sorted_bundles |-> sorted_bundles, trucks |-> trucks,
     iteration |-> iteration, bundle_index |-> bundle_index,
     bundles_to_remove |-> bundles_to_remove, improved |-> improved,
     pair |-> pair, result |-> result]

FFDSet(st) ==
    /\ pc' = st.pc
    /\ sorted_bundles' = st.sorted_bundles
    /\ trucks' = st.trucks
    /\ iteration' = st.iteration
    /\ bundle_index' = st.bundle_index
    /\ bundles_to_remove' = st.bundles_to_remove
    /\ improved' = st.improved
    /\ pair' = st.pair
    /\ result' = st.result

FFDFrame == UNCHANGED << pipes, inputVars, callVars, nestVars, min_trucks, num_trucks, run, first_call >>

FFDStart ==
    /\ pc = "nest_done"
    /\ \E st \in { ffd_start(bundles, Config) } : FFDSet(st)
    /\ FFDFrame

Place ==
    /\ pc = "place"
    /\ sorted_bundles # << >>
    /\ \E st \in { place(FFDState, Config) } : FFDSet(st)
    /\ FFDFrame

RebalanceEnter ==
    /\ pc = "place"
    /\ sorted_bundles = << >>
    /\ \E st \in { rebalance_enter(FFDState) } : FFDSet(st)
    /\ FFDFrame

EliminateScan ==
    /\ pc = "eliminate"
    /\ bundle_index <= Len(Last(trucks).bundles)
    /\ \E st \in { eliminate_scan(FFDState, Config) } : FFDSet(st)
    /\ FFDFrame

EliminateFinish ==
    /\ pc = "eliminate"
    /\ bundle_index > Len(Last(trucks).bundles)
    /\ \E st \in { eliminate_finish(FFDState) } : FFDSet(st)
    /\ FFDFrame

BalancePair ==
    /\ pc = "optimize"
    /\ \E st \in { balance_pair(FFDState, Config) } : FFDSet(st)
    /\ FFDFrame

Finish ==
    /\ pc = "finish"
    /\ \E st \in { finish(FFDState, Config) } : FFDSet(st)
    /\ FFDFrame

\* ============================================================ the second call
ResetRun ==
    /\ remaining' = << >> /\ bundles' = << >> /\ nesting_result' = << >>
    /\ min_trucks' = 0 /\ num_trucks' = 0
    /\ sorted_bundles' = << >> /\ trucks' = << >>
    /\ iteration' = 0 /\ bundle_index' = 0 /\ bundles_to_remove' = << >>
    /\ improved' = FALSE /\ pair' = << 0, 0 >>
    /\ result' = << >>
    /\ pc' = "start"
    /\ run' = 2
    /\ first_call' = << [pipes |-> pipes, result |-> result[1]] >>

\* the caller packs the list it still holds a second time
RepeatCall ==
    /\ pc = "done"
    /\ run = 1
    /\ ResetRun
    /\ UNCHANGED << pipes, inputVars, callVars >>

\* the caller packs the same order with one pipe's weight_per_meter raised
HeavierCall ==
    /\ pc = "done"
    /\ run = 1
    /\ \E i \in 1..Len(pipes) :
           pipes' = [pipes EXCEPT ![i].weight_per_meter = @ + WeightStep]
    /\ ResetRun
    /\ UNCHANGED << inputVars, callVars >>

Next ==
    \/ Start
    \/ StrategyB
    \/ Fallback
    \/ NestStart
    \/ NestHost
    \/ NestFinish
    \/ FFDStart
    \/ Place
    \/ RebalanceEnter
    \/ EliminateScan
    \/ EliminateFinish
    \/ BalancePair
    \/ Finish
    \/ RepeatCall
    \/ HeavierCall

Spec == Init /\ [][Next]_vars

\* ============================================================ the nesting engine alone
\* the PN6 chain DN 800 ... DN 32 of the seeded catalogue (bores and weights in
\* whole mm and kg/m), handed over smallest first
DeepChain ==
    << Pipe(11, 32, 28, 1), Pipe(10, 63, 58, 1), Pipe(9, 90, 83, 1), Pipe(8, 140, 129, 2),
       Pipe(7, 200, 184, 5), Pipe(6, 250, 230, 7), Pipe(5, 315, 290, 12),
       Pipe(4, 400, 369, 19), Pipe(3, 500, 461, 29), Pipe(2, 630, 581, 46),
       Pipe(1, 800, 738, 75) >>

\* the catalogue and a pipe narrower than DN 800 that its bore cannot take
NestCatalogue == Catalogue \cup { Pipe(3, 710, 650, 60) }

NestPipeLists == UNION { [1..n -> NestCatalogue] : n \in 0..MaxLen }

InitNest ==
    /\ pipes \in NestPipeLists \cup { DeepChain }
    /\ truck_config = DefaultTruck
    /\ pipe_length_m = PIPE_LENGTH_M
    /\ enable_nesting = TRUE
    /\ max_nesting_levels \in 1..MaxLevelsArg
    /\ prefer_lighter \in BOOLEAN
    /\ pc = "nest_start"
    /\ Idle
    /\ call = << >> /\ ret = << >>
    /\ run = 1
    /\ first_call = << >>

NextNest ==
    \/ NestStart
    \/ NestHost
    \/ NestFinish

SpecNest == InitNest /\ [][NextNest]_vars

\* ============================================================ first_fit_decreasing alone
\* first_fit_decreasing called on the bundles of a pipe list, one bundle per
\* pipe or nested, as the fallback and the unit tests call it
InitFFD ==
    /\ \/ /\ pipes \in PipeLists
          /\ truck_config \in TruckProfiles
          /\ \E o \in NestingOptions : enable_nesting = o[1] /\ max_nesting_levels = o[2]
       \* three heavy pipes, a DN 800 and a DN 315 pipe for a truck of 5 t
       \/ /\ pipes = << Pipe(0, 630, 515, 120), Pipe(0, 630, 515, 120),
                        Pipe(0, 630, 515, 120), Pipe(1, 800, 738, 75),
                        Pipe(0, 315, 290, 12) >>
          /\ truck_config = [DefaultTruck EXCEPT !.max_payload_kg = 5000]
          /\ enable_nesting = FALSE
          /\ max_nesting_levels = DEFAULT_MAX_NESTING_LEVELS
    /\ pipe_length_m = PIPE_LENGTH_M
    /\ prefer_lighter = TRUE
    /\ bundles = IF enable_nesting
                 THEN create_nested_bundles(pipes, max_nesting_levels, TRUE).bundles
                 ELSE Singletons(pipes)
    /\ pc = "nest_done"
    /\ remaining = << >> /\ nesting_result = << >>
    /\ min_trucks = 0 /\ num_trucks = 0
    /\ sorted_bundles = << >> /\ trucks = << >>
    /\ iteration = 0 /\ bundle_index = 0 /\ bundles_to_remove = << >>
    /\ improved = FALSE /\ pair = << 0, 0 >>
    /\ result = << >>
    /\ call = << >> /\ ret = << >>
    /\ run = 1
    /\ first_call = << >>

NextFFD ==
    \/ FFDStart
    \/ Place
    \/ RebalanceEnter
    \/ EliminateScan
    \/ EliminateFinish
    \/ BalancePair
    \/ Finish

SpecFFD == InitFFD /\ [][NextFFD]_vars

\* the code runs on: a step that can be taken is taken. A step of NextFFD can
\* be taken exactly where pc is not "done", so this is WF_vars(NextFFD).
SpecFFDLive ==
    InitFFD /\ [][NextFFD]_vars /\ ([]<>(pc = "done") \/ []<><<NextFFD>>_vars)

\* ============================================================ direct calls
\* One function of the calculators is called on its own: Init holds the
\* arguments in call, the action of that function puts what it returns in ret.
Return(value) ==
    /\ ret' = << value >>
    /\ pc' = "returned"
    /\ UNCHANGED << pipes, inputVars, nestVars, min_trucks, num_trucks, ffdVars, result,
                    run, first_call, call >>

Returned(fn) == pc = "returned" /\ call[1].fn = fn

CallValidateNestingCompatibility ==
    /\ pc = "call" /\ call[1].fn = "validate_nesting_compatibility"
    /\ Return(validate_nesting_compatibility(
                  call[1].host_inner_diameter_mm, call[1].host_outer_diameter_mm,
                  call[1].guest_outer_diameter_mm, call[1].apply_ovality))

CallFindCompatiblePipes ==
    /\ pc = "call" /\ call[1].fn = "find_compatible_pipes"
    /\ Return(find_compatible_pipes(call[1].host_pipe, call[1].candidate_pipes,
                                     call[1].apply_ovality))

CallNestPipeRecursive ==
    /\ pc = "call" /\ call[1].fn = "nest_pipe_recursive"
    /\ Return(nest_pipe_recursive(NestedPipe(call[1].host, 0), call[1].available_pipes,
                                   call[1].max_levels, call[1].current_level,
                                   call[1].prefer_lighter))

CallAddBundle ==
    /\ pc = "call" /\ call[1].fn = "add_bundle"
    /\ Return(add_bundle(call[1].truck, call[1].bundle, call[1].config))

\* axle_position is << >> when the caller leaves the axle group where the
\* function's default puts it
CallCalculateAxleLoads ==
    /\ pc = "call" /\ call[1].fn = "calculate_axle_loads"
    /\ Return(calculate_axle_loads(call[1].total_weight, call[1].cog_x, TRAILER_LENGTH_DM,
                                    call[1].kingpin_position, call[1].axle_position))

CallCalculateAxleDistribution ==
    /\ pc = "call" /\ call[1].fn = "calculate_axle_distribution"
    /\ Return(calculate_axle_distribution(
                  call[1].total_weight, call[1].cog_x,
                  [AxleConfig EXCEPT
                      !.kingpin_position_m = call[1].kingpin_position,
                      !.axle_group_position_m = IF call[1].axle_position = << >> THEN @
                                                ELSE call[1].axle_position[1]]))

\* the trailer is as long as puts the axle group, 1.5 m from its rear, at
\* axle_position
CallCheckAxleDistribution ==
    /\ pc = "call" /\ call[1].fn = "check_axle_distribution"
    /\ Return(check_axle_distribution(
                  call[1].total_weight, call[1].cog_x,
                  IF call[1].axle_position = << >> THEN TRAILER_LENGTH_DM
                  ELSE call[1].axle_position[1] + REAR_OVERHANG_DM,
                  call[1].kingpin_position))

CallCalculateCenterOfGravity ==
    /\ pc = "call" /\ call[1].fn = "calculate_center_of_gravity"
    /\ Return(calculate_center_of_gravity(call[1].items))

CallEstimateMixedStackHeight ==
    /\ pc = "call" /\ call[1].fn = "estimate_mixed_stack_height"
    /\ Return(estimate_mixed_stack_height(call[1].diameters, call[1].container_width_mm))

CallCalculateLoadingPlan ==
    /\ pc = "call" /\ call[1].fn = "calculate_loading_plan"
    /\ Return(calculate_loading_plan(
                  call[1].order_items,
                  [pipe_length_m |-> call[1].pipe_length_m] @@ call[1].truck_config,
                  call[1].enable_nesting, call[1].max_nesting_levels))

\* the order lines of the longest order, and the largest quantity of a line
MaxLines == 2
MaxQuantity == 2

InitCalc ==
    /\ pipes = << >>
    /\ truck_config = DefaultTruck
    /\ pipe_length_m = PIPE_LENGTH_M
    /\ enable_nesting = TRUE
    /\ max_nesting_levels = DEFAULT_MAX_NESTING_LEVELS
    /\ prefer_lighter = TRUE
    /\ Idle
    /\ run = 1
    /\ first_call = << >>
    /\ pc = "call"
    /\ ret = << >>
    /\ \/ \E c \in
           \* bores, host and guest diameters in whole mm, with guests on both
           \* sides of and exactly at the required gap
           { [fn |-> "validate_nesting_compatibility", host_inner_diameter_mm |-> hi,
              host_outer_diameter_mm |-> ho, guest_outer_diameter_mm |-> g,
              apply_ovality |-> ov] :
                 hi \in {369, 581, 350}, ho \in {400, 630},
                 g \in {315, 332, 348, 355, 500, 560}, ov \in BOOLEAN } :
           call = << c >>
       \/ \E c \in
           \* every host of the catalogue with every candidate list of it
           { [fn |-> "find_compatible_pipes", host_pipe |-> h, candidate_pipes |-> cs,
              apply_ovality |-> ov] :
                 h \in NestCatalogue, cs \in NestPipeLists, ov \in BOOLEAN } :
           call = << c >>
       \/ \E c \in
           \* every host with every pool, at the first level of a bundle
           { [fn |-> "nest_pipe_recursive", host |-> h, available_pipes |-> ps,
              max_levels |-> ml, current_level |-> 1, prefer_lighter |-> pl] :
                 h \in NestCatalogue, ps \in NestPipeLists,
                 ml \in {1, 2, DEFAULT_MAX_NESTING_LEVELS}, pl \in BOOLEAN } :
           call = << c >>
       \/ \E c \in
           \* trucks loaded by add_bundle with single pipes, handed one more
           \* single pipe or the bundle DN 800 > 630
           { [fn |-> "add_bundle",
              truck |-> AddAll([truck |-> TruckLoad(1), ok |-> TRUE], Singletons(ls),
                               [pipe_length_m |-> PIPE_LENGTH_M] @@ cfg).truck,
              bundle |-> b,
              config |-> [pipe_length_m |-> PIPE_LENGTH_M] @@ cfg] :
                 ls \in PipeLists,
                 b \in {NestedPipe(p, 0) : p \in Catalogue}
                          \cup {create_nested_bundles(SubSeq(sample_pipes, 1, 2),
                                                      DEFAULT_MAX_NESTING_LEVELS, TRUE).bundles[1]},
                 cfg \in TruckProfiles } :
           call = << c >>
       \/ \E c \in
           \* light and heavy loads, centres of gravity in front of the kingpin,
           \* between and at the axles, axle groups behind, at and before the kingpin
           { [fn |-> f, total_weight |-> w, cog_x |-> x, kingpin_position |-> k,
              axle_position |-> a] :
                 f \in {"calculate_axle_loads", "calculate_axle_distribution",
                        "check_axle_distribution"},
                 w \in {0, 3, 20000, 23001, 30000, 40000},
                 x \in {10, 50, 65, 68, 120},
                 k \in {0, KINGPIN_POSITION_DM},
                 a \in {<< >>, << 100 >>, << AXLE_GROUP_POSITION_DM >>,
                        << KINGPIN_POSITION_DM >>, << 10 >>} } :
           call = << c >>
       \/ \E c \in
           \* load items of no, little and more weight, before, at the ends of
           \* and behind the optimal band
           { [fn |-> "calculate_center_of_gravity", items |-> items] :
                 items \in UNION { [1..n -> [weight_kg : {0, 10, 30},
                                             x_position_m : {40, OPTIMAL_COG_MIN_DM,
                                                             OPTIMAL_COG_MAX_DM, 90}]] :
                                      n \in 0..MaxLen } } :
           call = << c >>
       \/ \E c \in
           \* orders of catalogue lines on the small trucks, the fixture's pipes
           \* as one order on the 24 t truck and on one of 2.6 t, and pipes of 200 kg/m, 2000 kg
           \* at 10 m and 2400 kg at 12 m, on trucks of 2000 and 2600 kg payload
           { [fn |-> "calculate_loading_plan", order_items |-> items,
              truck_config |-> cfg, pipe_length_m |-> PIPE_LENGTH_M,
              enable_nesting |-> o[1], max_nesting_levels |-> o[2]] :
                 items \in UNION { [1..n -> { p @@ [quantity |-> q] :
                                                 p \in Catalogue, q \in 1..MaxQuantity }] :
                                      n \in 0..MaxLines },
                 cfg \in TruckProfiles, o \in NestingOptions }
           \cup
           { [fn |-> "calculate_loading_plan",
              order_items |-> [i \in 1..Len(sample_pipes) |->
                                  sample_pipes[i] @@ [quantity |-> q]],
              truck_config |-> [DefaultTruck EXCEPT !.max_payload_kg = p],
              pipe_length_m |-> PIPE_LENGTH_M,
              enable_nesting |-> o[1], max_nesting_levels |-> o[2]] :
                 q \in 1..MaxQuantity, p \in {2600, 24000}, o \in NestingOptions }
           \cup
           { [fn |-> "calculate_loading_plan",
              order_items |-> << Pipe(0, 800, 620, 200) @@ [quantity |-> q] >>,
              truck_config |-> [DefaultTruck EXCEPT !.max_payload_kg = p],
              pipe_length_m |-> l,
              enable_nesting |-> o[1], max_nesting_levels |-> o[2]] :
                 q \in 1..MaxQuantity, p \in {2000, 2600}, l \in {10, PIPE_LENGTH_M},
                 o \in NestingOptions } :
           call = << c >>
       \/ \E c \in
           \* diameters that fill a row of the narrow truck to the millimetre,
           \* with and without the gap behind the last pipe, and rows of it
           { [fn |-> "estimate_mixed_stack_height", diameters |-> ds,
              container_width_mm |-> w] :
                 ds \in UNION { [1..n -> {110, 315, 630, 650, 800}] : n \in 0..MaxLen },
                 w \in {700, 1300, 2480} } :
           call = << c >>

NextCalc ==
    \/ CallValidateNestingCompatibility
    \/ CallFindCompatiblePipes
    \/ CallNestPipeRecursive
    \/ CallAddBundle
    \/ CallCalculateAxleLoads
    \/ CallCalculateAxleDistribution
    \/ CallCheckAxleDistribution
    \/ CallCalculateCenterOfGravity
    \/ CallCalculateLoadingPlan
    \/ CallEstimateMixedStackHeight

SpecCalc == InitCalc /\ [][NextCalc]_vars

\* ============================================================ properties
\* the number of positions of s that hold x
Count(s, x) == Cardinality({i \in 1..Len(s) : s[i] = x})

SameMultiset(a, b) ==
    /\ Len(a) = Len(b)
    /\ \A i \in 1..Len(a) : Count(a, a[i]) = Count(b, a[i])

StripAll(ps) == [i \in 1..Len(ps) |-> Strip(ps[i])]

RECURSIVE FlattenBundles(_)
FlattenBundles(bs) ==
    IF bs = << >> THEN << >> ELSE get_all_pipes(Head(bs)) \o FlattenBundles(Tail(bs))

\* the nodes of the tree b
RECURSIVE Nodes(_)
Nodes(b) ==
    LET RECURSIVE Below(_)
        Below(s) == IF s = << >> THEN {} ELSE Nodes(Head(s)) \cup Below(Tail(s))
    IN {b} \cup Below(b.nested_pipes)

BundleNodes(bs) == UNION {Nodes(bs[i]) : i \in 1..Len(bs)}

\* C4: create_nested_bundles puts every pipe into exactly one bundle: while the
\* loop runs, the pipes in the bundles built so far together with the pipes
\* still remaining are the input pipes (each step takes out of the pool the
\* pipe it nests), and the returned bundles hold exactly the input pipes, with
\* unpacked_pipes empty and total_pipes_processed the input length.
C4_NestingConservation ==
    /\ pc = "nest_loop" =>
           SameMultiset(StripAll(FlattenBundles(bundles) \o remaining), pipes)
    /\ (pc = "nest_done" /\ nesting_result # << >>) =>
           /\ SameMultiset(StripAll(FlattenBundles(nesting_result[1].bundles)), pipes)
           /\ nesting_result[1].unpacked_pipes = << >>
           /\ nesting_result[1].total_pipes_processed = Len(pipes)

\* C5: in every bundle built, each child is strictly narrower than its parent
\* and passes the gap validation against the parent's bore, ovality applied.
C5_GapClearance ==
    \A parent \in BundleNodes(bundles) :
        \A k \in 1..Len(parent.nested_pipes) :
            LET child == parent.nested_pipes[k]
            IN /\ outer_diameter(child) < outer_diameter(parent)
               /\ validate_nesting_compatibility(inner_diameter(parent), outer_diameter(parent),
                                                 outer_diameter(child), TRUE).is_valid

C5_Witness ==
    /\ pc = "nest_done"
    /\ \E i \in 1..Len(bundles) : total_nesting_levels(bundles[i]) >= 3
    /\ Len(bundles) >= 2

\* C6: a bundle without children has depth 1, one with children 1 plus the
\* largest depth among them, and no bundle is deeper than max_levels (>= 1).
C6_DepthBound ==
    \A b \in BundleNodes(bundles) :
        /\ b.nested_pipes = << >> => total_nesting_levels(b) = 1
        /\ b.nested_pipes # << >> =>
               /\ \A k \in 1..Len(b.nested_pipes) :
                      total_nesting_levels(b) >= 1 + total_nesting_levels(b.nested_pipes[k])
               /\ \E k \in 1..Len(b.nested_pipes) :
                      total_nesting_levels(b) = 1 + total_nesting_levels(b.nested_pipes[k])
        /\ b.level = 0 => total_nesting_levels(b) <= max_nesting_levels

\* the limit stopped a chain: a host of full depth whose innermost pipe could
\* still have taken one of the pipes that went to later bundles
C6_Witness ==
    /\ pc = "nest_done"
    /\ max_nesting_levels >= 2
    /\ Len(bundles) >= 2
    /\ total_nesting_levels(bundles[1]) = max_nesting_levels
    /\ total_nesting_levels(bundles[2]) >= 2

\* C7: whatever max_levels is passed, no bundle has more than 10 levels.
C7_HardCap ==
    \A i \in 1..Len(bundles) : total_nesting_levels(bundles[i]) <= MAX_NESTING_LEVELS

\* C8: every node of every bundle has at most one child.
C8_SingleChild ==
    \A b \in BundleNodes(bundles) : Len(b.nested_pipes) <= 1

\* a host took one guest although two of the remaining pipes were compatible
C8_Witness ==
    /\ pc = "nest_done"
    /\ \E i \in 1..Len(bundles) :
           /\ bundles[i].nested_pipes # << >>
           /\ Len(find_compatible_pipes(
                      [inner_diameter_mm |-> inner_diameter(bundles[i]),
                       outer_diameter_mm |-> outer_diameter(bundles[i]), dn_mm |-> 0],
                      pipes, TRUE)) >= 2
           /\ total_nesting_levels(bundles[i]) = 2
           /\ max_nesting_levels >= 3

\* ------------------------------------------------------------ packing runs
RECURSIVE FlattenTrucks(_)
FlattenTrucks(ts) ==
    IF ts = << >> THEN << >> ELSE FlattenBundles(Head(ts).bundles) \o FlattenTrucks(Tail(ts))

\* none of the attempts n = min_trucks .. min_trucks + 4 of Strategy B succeeds
StrategyBFails ==
    \A n \in 0..(STRATEGY_B_ATTEMPTS - 1) :
        ~try_pack_with_n_trucks(pipes, Config, min_trucks_by_weight(pipes, Config) + n,
                                enable_nesting, max_nesting_levels).ok

HeavierThanPayload(p) == p.weight_per_meter * pipe_length_m > truck_config.max_payload_kg

TallerThanTruck(p) == OuterOf(p) > truck_config.internal_height_mm

\* C1: the pipes of all bundles of all trucks of the returned PackingResult are
\* exactly the input pipes, none dropped and none duplicated.
C1_PackingConservation ==
    pc = "done" => SameMultiset(StripAll(FlattenTrucks(result[1].trucks)), pipes)

\* C2: at every point of a packing run and in the returned result, no truck
\* carries more than max_payload_kg.
C2_WeightInvariant ==
    /\ \A i \in 1..Len(trucks) :
           total_weight_kg(trucks[i], Config) <= truck_config.max_payload_kg
    /\ result # << >> =>
           \A i \in 1..Len(result[1].trucks) :
               total_weight_kg(result[1].trucks[i], Config) <= truck_config.max_payload_kg

\* a balancing move has been made, next to a truck too full to take the
\* lightest bundle of another truck
C2_Witness ==
    /\ pc = "optimize"
    /\ iteration >= 2
    /\ \E i, j \in 1..Len(trucks) :
           /\ i # j
           /\ \E k \in 1..Len(trucks[j].bundles) :
                  calculate_bundle_weight(trucks[j].bundles[k], pipe_length_m)
                      > remaining_capacity_kg(trucks[i], Config)

\* the operations that raise in Python when undefined are defined: the
\* divisions by max_payload_kg have a divisor other than 0, trucks[-1] and the
\* truck pairs exist, and list.remove finds its bundle
NoRaise ==
    /\ truck_config.max_payload_kg # 0
    /\ pc = "eliminate" =>
           /\ Len(trucks) >= 2
           /\ \A k \in 1..Len(bundles_to_remove) :
                  Count(Last(trucks).bundles, bundles_to_remove[k])
                      >= Count(bundles_to_remove, bundles_to_remove[k])
    /\ pc = "optimize" => (1 <= pair[1] /\ pair[1] < pair[2] /\ pair[2] <= Len(trucks))
    /\ pc \in {"start", "strategy_b", "fallback", "nest_start", "nest_loop", "nest_done",
               "place", "eliminate", "optimize", "finish", "done"}

C10_WeightMonotone ==
    (pc = "done" /\ run = 2) =>
        result[1].total_trucks_needed >= first_call[1].result.total_trucks_needed
\* ---------------------------------------------------------------------------
\* the result of the first call on the fixture's seven pipes with the default
\* max_nesting_levels
SampleDone ==
    /\ pc = "done" /\ run = 1
    /\ pipes = sample_pipes
    /\ truck_config = DefaultTruck
    /\ enable_nesting /\ prefer_lighter
    /\ max_nesting_levels = DEFAULT_MAX_NESTING_LEVELS

\* C11 as stated: the seven PN6 pipes DN 800 ... DN 110, nested with max nesting
\* levels 4 and prefer_lighter on, give exactly one bundle, hosted by the DN 800
\* pipe and deeper than 1, and it packs into one 24,000 kg truck within the payload
C11_OneBundle ==
    SampleDone =>
        /\ Len(result[1].trucks) = 1
        /\ Len(result[1].trucks[1].bundles) = 1
        /\ result[1].trucks[1].bundles[1].pipe_data.dn_mm = 800
        /\ total_nesting_levels(result[1].trucks[1].bundles[1]) > 1
        /\ total_weight_kg(result[1].trucks[1], Config) <= truck_config.max_payload_kg

\* C11 amended: with max nesting levels 4 the seven pipes give exactly two
\* bundles, DN 800 > 630 > 500 > 400 of depth 4 and DN 315 > 200 > 110 of depth 3,
\* both in the one 24,000 kg truck, whose total weight is within the payload
C11_TwoBundles ==
    SampleDone =>
        LET Dns(b) == [i \in 1..Len(get_all_pipes(b)) |-> get_all_pipes(b)[i].dn_mm]
        IN /\ Len(result[1].trucks) = 1
           /\ Len(result[1].trucks[1].bundles) = 2
           /\ Dns(result[1].trucks[1].bundles[1]) = << 800, 630, 500, 400 >>
           /\ total_nesting_levels(result[1].trucks[1].bundles[1]) = 4
           /\ Dns(result[1].trucks[1].bundles[2]) = << 315, 200, 110 >>
           /\ total_nesting_levels(result[1].trucks[1].bundles[2]) = 3
           /\ total_weight_kg(result[1].trucks[1], Config) <= truck_config.max_payload_kg

C11_Witness == SampleDone /\ result[1].total_trucks_needed = 1

\* ---------------------------------------------------------------------------
\* C12: validate_nesting_compatibility reports required_gap = 15.0 + 0.015 x host
\* outer diameter, available_gap = (bore - 0.04 x host outer diameter under
\* ovality, else bore) - guest outer diameter, and is_valid exactly when
\* available_gap >= required_gap (gaps in micrometres); bore 369, host 400, no
\* ovality: guest 315 has 54 >= 21 and is valid, guest 355 has 14 < 21 and is not
C12_GapValidation ==
    Returned("validate_nesting_compatibility") =>
        LET c == call[1]
            r == ret[1]
            bore == 1000 * c.host_inner_diameter_mm
            required == 15000 + 15 * c.host_outer_diameter_mm
            available == (IF c.apply_ovality
                          THEN bore - 40 * c.host_outer_diameter_mm ELSE bore)
                         - 1000 * c.guest_outer_diameter_mm
            example == /\ c.host_inner_diameter_mm = 369
                       /\ c.host_outer_diameter_mm = 400
                       /\ ~c.apply_ovality
        IN /\ r.required_gap_mm = required
           /\ r.available_gap_mm = available
           /\ r.is_valid <=> (available >= required)
           /\ example /\ c.guest_outer_diameter_mm = 315 =>
                  r.available_gap_mm = 54000 /\ r.required_gap_mm = 21000 /\ r.is_valid
           /\ example /\ c.guest_outer_diameter_mm = 355 =>
                  r.available_gap_mm = 14000 /\ r.required_gap_mm = 21000 /\ ~r.is_valid

\* a guest exactly at the required gap under ovality has been validated
C12_Witness ==
    /\ Returned("validate_nesting_compatibility")
    /\ call[1].apply_ovality
    /\ ret[1].available_gap_mm = ret[1].required_gap_mm
    /\ ret[1].is_valid

\* ---------------------------------------------------------------------------
\* C13: find_compatible_pipes(host, candidates) returns exactly the candidates
\* whose outer diameter is strictly less than the host's and whose gap validation
\* against the host is valid, each as often as it occurs in the input, ordered by
\* outer diameter non-increasing; a candidate as wide as the host is never returned
C13_CompatibleExactly ==
    Returned("find_compatible_pipes") =>
        LET host == call[1].host_pipe
            candidates == call[1].candidate_pipes
            returned == StripAll(ret[1])
            Compatible(c) ==
                /\ OuterOf(c) < OuterOf(host)
                /\ validate_nesting_compatibility(host.inner_diameter_mm, OuterOf(host),
                                                  OuterOf(c), call[1].apply_ovality).is_valid
        IN /\ \A c \in NestCatalogue :
                  Count(returned, c) = IF Compatible(c) THEN Count(candidates, c) ELSE 0
           /\ \A i \in 1..Len(returned) : returned[i] \in NestCatalogue
           /\ \A i, j \in 1..Len(returned) :
                  i < j => OuterOf(returned[i]) >= OuterOf(returned[j])
           /\ \A i \in 1..Len(returned) : OuterOf(returned[i]) # OuterOf(host)

\* a call that returned a candidate and left out a candidate as wide as the host
\* and a narrower candidate the bore cannot take
C13_Witness ==
    /\ Returned("find_compatible_pipes")
    /\ Len(ret[1]) = 1
    /\ \E i \in 1..Len(call[1].candidate_pipes) :
           OuterOf(call[1].candidate_pipes[i]) = OuterOf(call[1].host_pipe)
    /\ \E i \in 1..Len(call[1].candidate_pipes) :
           /\ OuterOf(call[1].candidate_pipes[i]) < OuterOf(call[1].host_pipe)
           /\ \A j \in 1..Len(ret[1]) : Strip(ret[1][j]) # call[1].candidate_pipes[i]

C15_StrategyBOrder ==
    LET total_weight == PipesWeight(pipes, pipe_length_m)
        max_payload == truck_config.max_payload_kg
        ceiling == Max2(1, (total_weight + max_payload - 1) \div max_payload)
        range == ceiling..(ceiling + 4)
        Succeeds(n) == try_pack_with_n_trucks(pipes, Config, n, enable_nesting,
                                              max_nesting_levels).ok
        succeeding == {n \in range : Succeeds(n)}
    IN /\ pc = "strategy_b" =>
              /\ min_trucks = ceiling
              /\ num_trucks \in range
              /\ \A n \in range : n < num_trucks => ~Succeeds(n)
       /\ pc = "done" /\ pipes # << >> /\ succeeding # {} =>
              result[1] = PackingResult(
                  try_pack_with_n_trucks(pipes, Config,
                                         CHOOSE n \in succeeding : \A k \in succeeding : n <= k,
                                         enable_nesting, max_nesting_levels).trucks,
                  Config)

C17_AddBundle ==
    Returned("add_bundle") =>
        LET truck == call[1].truck
            bundle == call[1].bundle
            config == call[1].config
            after == ret[1].truck
            Weight(b) == PipesWeight(get_all_pipes(b), config.pipe_length_m)
            Total(t) == SumSeq([i \in 1..Len(t.bundles) |-> Weight(t.bundles[i])])
            diameters == [i \in 1..Len(truck.bundles) |-> OuterOf(truck.bundles[i].pipe_data)]
                         \o << OuterOf(bundle.pipe_data) >>
            light == Weight(bundle) <= config.max_payload_kg - Total(truck)
            low == estimate_mixed_stack_height(diameters, config.internal_width_mm)
                       <= HeightScale * config.internal_height_mm
        IN /\ ret[1].ok <=> (light /\ low)
           /\ ret[1].ok =>
                  /\ after.bundles = Append(truck.bundles, bundle)
                  /\ total_weight_kg(after, config) = Total(truck) + Weight(bundle)
                  /\ total_weight_kg(after, config) = Total(after)
                  /\ remaining_capacity_kg(after, config)
                         = config.max_payload_kg - Total(after)
           /\ ~ret[1].ok => after.bundles = truck.bundles

\* a loaded truck refused a bundle it could carry but not stack
C17_Witness ==
    /\ Returned("add_bundle")
    /\ ~ret[1].ok
    /\ call[1].truck.bundles # << >>
    /\ calculate_bundle_weight(call[1].bundle, call[1].config.pipe_length_m)
           <= remaining_capacity_kg(call[1].truck, call[1].config)

\* ---------------------------------------------------------------------------
\* the lever arm of a call of an axle calculator: axle group to kingpin
LeverArm ==
    (IF call[1].axle_position = << >> THEN AXLE_GROUP_POSITION_DM
     ELSE call[1].axle_position[1]) - call[1].kingpin_position

\* C18 as stated: for axle_group_position > kingpin_position both axle
\* calculators return axle_group_load = total_weight x (cog_x - kingpin_position)
\* / (axle_group_position - kingpin_position) (to the kg where the load is
\* returned in whole kg) and kingpin_load = total_weight - axle_group_load, so the
\* two loads sum to the total weight, and the load is valid exactly when
\* kingpin_load <= 11,500 kg and axle_group_load <= 3 x 8,000 kg; 20,000 kg at
\* CoG 6.5 m, kingpin 1.5 m, axle group 12.1 m gives about 9,434 kg and
\* 10,566 kg and is compliant
C18_MomentBalance ==
    LET total == call[1].total_weight
        moment == total * (call[1].cog_x - call[1].kingpin_position)
        example == /\ total = 20000 /\ call[1].cog_x = 65
                   /\ call[1].kingpin_position = 15 /\ LeverArm = 106
    IN /\ Returned("calculate_axle_loads") /\ LeverArm > 0 =>
              LET axle == ret[1].axle_group_load_kg
                  kingpin == ret[1].kingpin_load_kg
              IN /\ axle[1] * LeverArm = moment * axle[2]
                 /\ kingpin[1] * axle[2] + axle[1] * kingpin[2] = total * kingpin[2] * axle[2]
                 /\ ret[1].total_valid <=> /\ kingpin[1] <= 11500 * kingpin[2]
                                            /\ axle[1] <= 3 * 8000 * axle[2]
                 /\ example => /\ ret[1].total_valid
                                /\ RoundHalfEven(axle[1], axle[2]) = 9434
                                /\ RoundHalfEven(kingpin[1], kingpin[2]) = 10566
       /\ Returned("calculate_axle_distribution") /\ LeverArm > 0 =>
              LET axle == ret[1].axle_group_load_kg
                  kingpin == ret[1].kingpin_load_kg
              IN /\ 2 * Abs(axle * LeverArm - moment) <= LeverArm
                 /\ kingpin + axle = total
                 /\ ret[1].is_valid <=> (kingpin <= 11500 /\ axle <= 3 * 8000)
                 /\ example => ret[1].is_valid /\ axle = 9434 /\ kingpin = 10566

\* C18 amended: calculate_axle_loads returns exactly those two loads, which sum
\* to the total weight, and is valid exactly when kingpin_load <= 11,500 kg and
\* axle_group_load <= 3 x 8,000 kg; calculate_axle_distribution decides validity
\* on the same two loads but returns each rounded to whole kg (a half to the even
\* kg), so its two loads sum to the total weight to within 1 kg
C18_MomentBalanceRounded ==
    LET total == call[1].total_weight
        moment == total * (call[1].cog_x - call[1].kingpin_position)
        rest == total * LeverArm - moment
        example == /\ total = 20000 /\ call[1].cog_x = 65
                   /\ call[1].kingpin_position = 15 /\ LeverArm = 106
        Nearest(n, num) == /\ 2 * Abs(n * LeverArm - num) <= LeverArm
                           /\ 2 * Abs(n * LeverArm - num) = LeverArm => n % 2 = 0
    IN /\ Returned("calculate_axle_loads") /\ LeverArm > 0 =>
              LET axle == ret[1].axle_group_load_kg
                  kingpin == ret[1].kingpin_load_kg
              IN /\ axle[1] * LeverArm = moment * axle[2]
                 /\ kingpin[1] * axle[2] + axle[1] * kingpin[2] = total * kingpin[2] * axle[2]
                 /\ ret[1].total_valid <=> /\ kingpin[1] <= 11500 * kingpin[2]
                                            /\ axle[1] <= 3 * 8000 * axle[2]
                 /\ example => /\ ret[1].total_valid
                                /\ RoundHalfEven(axle[1], axle[2]) = 9434
                                /\ RoundHalfEven(kingpin[1], kingpin[2]) = 10566
       /\ Returned("calculate_axle_distribution") /\ LeverArm > 0 =>
              /\ Nearest(ret[1].axle_group_load_kg, moment)
              /\ Nearest(ret[1].kingpin_load_kg, rest)
              /\ Abs(ret[1].kingpin_load_kg + ret[1].axle_group_load_kg - total) <= 1
              /\ ret[1].is_valid <=> /\ rest <= 11500 * LeverArm
                                      /\ moment <= 3 * 8000 * LeverArm
              /\ example => /\ ret[1].is_valid
                             /\ ret[1].axle_group_load_kg = 9434
                             /\ ret[1].kingpin_load_kg = 10566

\* calculate_axle_distribution returned two loads of 11,500 kg for a load of
\* 23,001 kg that it found invalid
C18_Witness ==
    /\ Returned("calculate_axle_distribution")
    /\ LeverArm > 0
    /\ ~ret[1].is_valid
    /\ ret[1].kingpin_load_kg = 11500
    /\ ret[1].kingpin_load_kg + ret[1].axle_group_load_kg # call[1].total_weight

\* ---------------------------------------------------------------------------
\* C19: whenever axle_group_position <= kingpin_position, the axle-load
\* calculation divides nothing and returns a result flagged invalid, with the
\* message 'Invalid axle configuration', for every total weight and centre of
\* gravity
C19_DegenerateLever ==
    /\ Returned("calculate_axle_loads") /\ LeverArm <= 0 =>
           /\ ~ret[1].total_valid
           /\ ret[1].messages = << "Invalid axle configuration" >>
           /\ ret[1].kingpin_load_kg = << call[1].total_weight, 1 >>
           /\ ret[1].axle_group_load_kg = << 0, 1 >>
    /\ Returned("calculate_axle_distribution") /\ LeverArm <= 0 =>
           /\ ~ret[1].is_valid
           /\ ret[1].violation_message = << "Invalid axle configuration" >>
           /\ ret[1].kingpin_load_kg = call[1].total_weight
           /\ ret[1].axle_group_load_kg = 0

\* a load within the limits was handed over with the axle group at the kingpin
C19_Witness ==
    /\ Returned("calculate_axle_loads")
    /\ LeverArm = 0
    /\ call[1].total_weight = 3
    /\ ~ret[1].total_valid

\* ---------------------------------------------------------------------------
\* C20: for load items of positive total weight calculate_center_of_gravity
\* returns cog_x = sum(weight x position) / sum(weight) and total_weight =
\* sum(weight), and is_optimal exactly when 5.5 <= cog_x <= 7.5 (55 and 75 dm); an
\* empty list or a zero total weight returns cog 0 and divides nothing
C20_CenterOfGravity ==
    Returned("calculate_center_of_gravity") =>
        LET items == call[1].items
            weights == SumSeq([i \in 1..Len(items) |-> items[i].weight_kg])
            moments == SumSeq([i \in 1..Len(items) |->
                                  items[i].weight_kg * items[i].x_position_m])
            cog == ret[1].cog_x_m
        IN IF items = << >> \/ weights = 0
           THEN cog = << 0, 1 >> /\ ret[1].total_weight_kg = 0
           ELSE /\ cog[2] > 0
                /\ cog[1] * weights = moments * cog[2]
                /\ ret[1].total_weight_kg = weights
                /\ ret[1].is_optimal <=> (55 * cog[2] <= cog[1] /\ cog[1] <= 75 * cog[2])

\* items of different weight before and behind the band, with the centre of
\* gravity inside it
C20_Witness ==
    /\ Returned("calculate_center_of_gravity")
    /\ call[1].items # << >>
    /\ call[1].items[1].x_position_m < OPTIMAL_COG_MIN_DM
    /\ call[1].items[Len(call[1].items)].x_position_m > OPTIMAL_COG_MAX_DM
    /\ call[1].items[1].weight_kg > call[1].items[Len(call[1].items)].weight_kg
    /\ call[1].items[Len(call[1].items)].weight_kg > 0
    /\ ret[1].is_optimal


\* ------------------------------------------------------------ loading plans
\* C21: in a returned loading plan every bundle's requires_heavy_extraction is
\* true exactly when the bundle weighs more than 2000 kg; the heavy-equipment
\* warnings are one per flagged bundle of the trucks, in the order of the plan;
\* there is one overweight warning when the order's total weight exceeds
\* max_payload_kg and none otherwise; and the plan is returned with its trucks
\* whatever the warnings are.
C21_Warnings ==
    Returned("calculate_loading_plan") =>
        LET plan == ret[1]
            length_m == call[1].pipe_length_m
            items == call[1].order_items
            \* the weight of the pipes of the bundle dict d
            RECURSIVE DictWeight(_)
            DictWeight(d) ==
                d.outer_pipe.weight_per_meter * length_m
                    + SumSeq([i \in 1..Len(d.nested_pipes) |-> DictWeight(d.nested_pipes[i])])
            \* the bundles of the trucks as << truck, position >>, in the plan's order
            RECURSIVE PlanBundles(_, _)
            PlanBundles(t, k) ==
                IF t > Len(plan.trucks) THEN << >>
                ELSE IF k > Len(plan.trucks[t].bundles) THEN PlanBundles(t + 1, 1)
                ELSE << << t, k >> >> \o PlanBundles(t, k + 1)
            at == PlanBundles(1, 1)
            flagged == SelectSeq(at, LAMBDA x :
                                     plan.trucks[x[1]].bundles[x[2]].requires_heavy_extraction)
            heavy == SelectSeq(plan.warnings, LAMBDA w : w.kind = "heavy")
            over == SelectSeq(plan.warnings, LAMBDA w : w.kind = "overweight")
            order_weight == SumSeq([i \in 1..Len(items) |->
                                       items[i].quantity * items[i].weight_per_meter * length_m])
        IN /\ \A i \in 1..Len(at) :
                  LET d == plan.trucks[at[i][1]].bundles[at[i][2]]
                  IN /\ d.bundle_weight_kg = DictWeight(d)
                     /\ d.requires_heavy_extraction <=> d.bundle_weight_kg > 2000
           /\ Len(heavy) = Len(flagged)
           /\ \A i \in 1..Len(heavy) :
                  LET d == plan.trucks[flagged[i][1]].bundles[flagged[i][2]]
                  IN /\ heavy[i].truck_number = plan.trucks[flagged[i][1]].truck_number
                     /\ heavy[i].code = d.outer_pipe.code
                     /\ heavy[i].weight_kg = d.bundle_weight_kg
           /\ Len(over) = IF order_weight > call[1].truck_config.max_payload_kg THEN 1 ELSE 0
           /\ Len(plan.warnings) = Len(heavy) + Len(over)
           /\ plan.trucks_needed = Len(plan.trucks)
           /\ plan.total_pipes = SumSeq([i \in 1..Len(items) |-> items[i].quantity])

\* a plan of two trucks with a heavy-equipment warning for the bundle of each
\* and the warning of an overweight order
C21_Witness ==
    /\ Returned("calculate_loading_plan")
    /\ Len(ret[1].trucks) = 2
    /\ Len(ret[1].warnings) = 3
    /\ ret[1].warnings[1].kind = "heavy"
    /\ ret[1].warnings[2].kind = "heavy"
    /\ ret[1].warnings[3].kind = "overweight"

\* C30: the estimated_space_reduction_pct of a returned loading plan lies
\* between 0 and 100 (tenths of a percent: 0 and 1000), and is 0 when nesting
\* is disabled.
C30_SpaceReductionRange ==
    Returned("calculate_loading_plan") =>
        /\ 0 <= ret[1].nesting_stats.estimated_space_reduction_pct
        /\ ret[1].nesting_stats.estimated_space_reduction_pct <= 1000
        /\ ~call[1].enable_nesting => ret[1].nesting_stats.estimated_space_reduction_pct = 0

\* ------------------------------------------------------------ returned trucks
\* the trucks of first_fit_decreasing when its placement loop is left
RECURSIVE PlacedTrucks(_, _)
PlacedTrucks(st, config) ==
    IF st.pc # "place" \/ st.sorted_bundles = << >> THEN st.trucks
    ELSE PlacedTrucks(place(st, config), config)

\* C22: in every returned PackingResult, of Strategy B and of the fallback, the
\* truck numbers are 1, 2, ..., N in list order and total_trucks_needed is N,
\* the number of trucks in the list.
C22_TruckNumbering ==
    pc = "done" =>
        /\ result[1].total_trucks_needed = Len(result[1].trucks)
        /\ \A i \in 1..Len(result[1].trucks) : result[1].trucks[i].truck_number = i

\* a result of the fallback with two trucks or more, after rebalancing has
\* removed a truck
C22_Witness ==
    /\ pc = "done"
    /\ StrategyBFails
    /\ Len(result[1].trucks) >= 2
    /\ Len(result[1].trucks) < Len(PlacedTrucks(ffd_start(bundles, Config), Config))

PairMoveRule(among_eligible) ==
    (pc = "optimize" /\ trucks' # trucks) =>
        LET wa == total_weight_kg(trucks[pair[1]], Config)
            wb == total_weight_kg(trucks[pair[2]], Config)
            s == IF wa > wb THEN pair[1] ELSE pair[2]
            t == IF wa > wb THEN pair[2] ELSE pair[1]
            old_diff == Abs(wa - wb)
            W(b) == calculate_bundle_weight(b, pipe_length_m)
            NewDiff(b) == Abs(old_diff - 2 * W(b))
            Eligible(b) == can_fit(trucks[t], b, Config) /\ 10 * NewDiff(b) < 9 * old_diff
        IN /\ 100 * old_diff >= 15 * truck_config.max_payload_kg
           /\ \E k \in 1..Len(trucks[s].bundles) :
                  LET x == trucks[s].bundles[k]
                  IN /\ trucks' = [trucks EXCEPT ![s].bundles = RemoveFirst(@, x),
                                                 ![t].bundles = Append(@, x)]
                     /\ can_fit(trucks[t], x, Config)
                     /\ 10 * NewDiff(x) <= 9 * old_diff
                     /\ among_eligible => Eligible(x)
                     /\ \A y \in 1..Len(trucks[s].bundles) :
                            (among_eligible => Eligible(trucks[s].bundles[y])) =>
                                W(x) <= W(trucks[s].bundles[y])

\* C24: a balancing step moves a bundle only between trucks whose utilizations
\* differ by at least 15 points, from the more to the less utilized one; the
\* bundle is the smallest-weight bundle of the more utilized truck, the target
\* can_fit it, the gap falls by at least 10%, and one call moves one bundle.
C24_SmallestMoved == [][PairMoveRule(FALSE)]_vars

\* C24, amended: as above, but the bundle moved is the lightest of the bundles
\* of the more utilized truck that the target can fit and whose move cuts the
\* gap by more than 10%.
C24_LightestEligibleMoved == [][PairMoveRule(TRUE)]_vars

\* after the first pass: the second truck has taken a bundle of 1440 kg from
\* the first, which still holds its lightest bundle of 144 kg
C24_Witness ==
    /\ pc = "optimize"
    /\ iteration = 2
    /\ Len(trucks) = 2
    /\ calculate_bundle_weight(Last(trucks[2].bundles), pipe_length_m) = 1440
    /\ calculate_bundle_weight(Last(trucks[1].bundles), pipe_length_m) = 144
    /\ Len(trucks[1].bundles) = 3

\* ------------------------------------------------------------ stack heights
\* The height (in 1/HeightScale mm) of the rows that the diameters, taken in
\* non-increasing order, fill when a pipe opens a new row exactly if the sum
\* of (diameter + gap) over the pipes already in the row, plus its own
\* diameter, plus own_gap, exceeds the width: the first row's largest diameter
\* plus, for each later row, sqrt(3)/2 times the average of the largest
\* diameters of that row and of the row before it.
RowFillHeight(diameters, width, own_gap) ==
    LET n == Len(diameters)
        s == CHOOSE q \in [1..n -> {diameters[i] : i \in 1..n}] :
                 /\ SameMultiset(q, diameters)
                 /\ \A i \in 1..(n - 1) : q[i] >= q[i + 1]
        \* the first pipe of the row that pipe k is in, for the row starts S
        StartOf(S, k) == CHOOSE a \in S : a <= k /\ \A b \in S : b <= k => b <= a
        Opens(S, k) ==
            SumSeq([i \in 1..(k - StartOf(S, k - 1)) |->
                       s[StartOf(S, k - 1) + i - 1] + GAP_MM]) + s[k] + own_gap > width
        starts == CHOOSE S \in SUBSET (1..n) :
                      /\ 1 \in S
                      /\ \A k \in 2..n : k \in S <=> Opens(S, k)
        Before(a) == CHOOSE b \in starts : b < a /\ \A c \in starts : c < a => c <= b
    IN IF n = 0 THEN 0
       ELSE HeightScale * s[1]
            + SumSeq([k \in 1..n |->
                         IF k \in starts /\ k # 1
                         THEN (s[Before(k)] + s[k]) * SQRT3_OVER_2_MILLI ELSE 0])

\* C25: estimate_mixed_stack_height fills rows with the diameters in
\* non-increasing order, a pipe opening a new row when the row's running sum
\* of (diameter + gap), the pipe's own included, would exceed the width, and
\* returns the first row's maximum plus sqrt(3)/2 times the average of the two
\* maxima for each later row; no diameters give 0, one row its largest diameter.
C25_RowsCountingOwnGap ==
    Returned("estimate_mixed_stack_height") =>
        ret[1] = RowFillHeight(call[1].diameters, call[1].container_width_mm, GAP_MM)

\* C25, amended: a pipe opens a new row when the sum of (diameter + gap) over
\* the pipes already in the row plus its own diameter, without a gap of its
\* own, exceeds the width; the rest as above.
C25_MixedStackHeight ==
    Returned("estimate_mixed_stack_height") =>
        LET ds == call[1].diameters
            w == call[1].container_width_mm
        IN /\ ret[1] = RowFillHeight(ds, w, 0)
           /\ ds = << >> => ret[1] = 0
           /\ (ds # << >> /\ SumSeq(ds) + (Len(ds) - 1) * GAP_MM <= w) =>
                  \E i \in 1..Len(ds) :
                      /\ ret[1] = HeightScale * ds[i]
                      /\ \A j \in 1..Len(ds) : ds[j] <= ds[i]

\* a row filled to the last millimetre of the width, under a row of two pipes
C25_Witness ==
    /\ Returned("estimate_mixed_stack_height")
    /\ call[1].diameters = << 630, 800, 650 >>
    /\ call[1].container_width_mm = 1300
    /\ ret[1] = HeightScale * 800 + (800 + 650) * SQRT3_OVER_2_MILLI

\* C26: every truck of every returned PackingResult holds at least one bundle.
C26_NoEmptyTrucks ==
    pc = "done" => \A i \in 1..Len(result[1].trucks) : result[1].trucks[i].bundles # << >>

\* C27: at every point of a packing run, after each placement and each move
\* of either rebalancing loop, and in every returned PackingResult, the
\* estimate_mixed_stack_height of the outer diameters of each truck's bundles
\* is at most the truck's internal height.
C27_SpatialInvariant ==
    LET Fits(truck) ==
            estimate_mixed_stack_height(
                [k \in 1..Len(truck.bundles) |-> outer_diameter(truck.bundles[k])],
                truck_config.internal_width_mm)
                <= truck_config.internal_height_mm * HeightScale
    IN /\ \A i \in 1..Len(trucks) : Fits(trucks[i])
       /\ result # << >> => \A i \in 1..Len(result[1].trucks) : Fits(result[1].trucks[i])

\* a balancing move has been made between two trucks, one of which has no room
\* for a bundle that the other holds and the payload would allow
C27_Witness ==
    /\ pc = "optimize"
    /\ iteration >= 2
    /\ \E i, j \in 1..Len(trucks) :
           /\ i # j
           /\ \E k \in 1..Len(trucks[j].bundles) :
                  /\ calculate_bundle_weight(trucks[j].bundles[k], pipe_length_m)
                         <= remaining_capacity_kg(trucks[i], Config)
                  /\ ~can_fit_spatially(trucks[i], trucks[j].bundles[k], Config)

\* ------------------------------------------------------------ Strategy B retries
\* truck_pipes of _try_pack_with_n_trucks for n trucks, and whether every pipe
\* found a truck
Assignment(n) ==
    Distribute(Sorted(pipes, [k \in 1..Len(pipes) |-> DnWeightKey(pipes[k])], TRUE),
               [i \in 1..n |-> << >>], [i \in 1..n |-> 0], Config)

\* C28: among the numbers of trucks that Strategy B tries, the assignment of
\* pipes to truck indexes is the same for every n at which every pipe finds a
\* truck (more trucks only add empty ones); so when the attempt with n places
\* every pipe and fails on space, every attempt with more trucks fails too and
\* the returned result is that of first_fit_decreasing in the fallback.
C28_RetriesSameAssignment ==
    (pipes # << >> /\ pc \in {"strategy_b", "done"}) =>
        LET first == min_trucks_by_weight(pipes, Config)
            tried == first..(first + STRATEGY_B_ATTEMPTS - 1)
            Fails(n) == ~try_pack_with_n_trucks(pipes, Config, n, enable_nesting,
                                                max_nesting_levels).ok
        IN \A n \in tried :
               Assignment(n).ok =>
                   /\ \A n2 \in tried :
                          n2 > n =>
                              /\ Assignment(n2).ok
                              /\ \A i \in 1..n2 :
                                     Assignment(n2).truck_pipes[i] =
                                         IF i <= n THEN Assignment(n).truck_pipes[i]
                                         ELSE << >>
                   /\ Fails(n) =>
                          /\ \A n2 \in tried : n2 > n => Fails(n2)
                          /\ pc = "done" =>
                                 result[1] = first_fit_decreasing(
                                                 IF enable_nesting
                                                 THEN create_nested_bundles(
                                                          pipes, max_nesting_levels, TRUE).bundles
                                                 ELSE Singletons(pipes),
                                                 Config)

\* the first attempt placed every pipe by weight and failed on space, and the
\* fallback has returned more trucks than that attempt had
C28_Witness ==
    /\ pc = "done"
    /\ pipes # << >>
    /\ Assignment(min_trucks_by_weight(pipes, Config)).ok
    /\ StrategyBFails
    /\ Len(result[1].trucks) > min_trucks_by_weight(pipes, Config)
    /\ \A i \in 1..Len(result[1].trucks) : result[1].trucks[i].bundles # << >>

\* C29: called with the same total weight, centre of gravity, kingpin position
\* 1.5 m and axle-group position, calculate_axle_loads,
\* calculate_axle_distribution and check_axle_distribution give the same
\* verdict, and an invalid one when the axle group is not behind the kingpin.
C29_AxleAgreement ==
    (/\ pc = "returned"
     /\ call[1].fn \in {"calculate_axle_loads", "calculate_axle_distribution",
                        "check_axle_distribution"}
     /\ call[1].kingpin_position = KINGPIN_POSITION_DM) =>
        LET axle_position == IF call[1].axle_position = << >> THEN AXLE_GROUP_POSITION_DM
                             ELSE call[1].axle_position[1]
            geometry == calculate_axle_loads(call[1].total_weight, call[1].cog_x,
                                             TRAILER_LENGTH_DM, KINGPIN_POSITION_DM,
                                             << axle_position >>).total_valid
            calculators == calculate_axle_distribution(
                               call[1].total_weight, call[1].cog_x,
                               [AxleConfig EXCEPT !.axle_group_position_m = axle_position]).is_valid
            compliance == check_axle_distribution(call[1].total_weight, call[1].cog_x,
                                                  axle_position + REAR_OVERHANG_DM,
                                                  KINGPIN_POSITION_DM).is_valid
            verdict == IF call[1].fn = "calculate_axle_loads" THEN ret[1].total_valid
                       ELSE ret[1].is_valid
        IN /\ verdict = geometry
           /\ verdict = calculators
           /\ verdict = compliance
           /\ axle_position <= KINGPIN_POSITION_DM => ~verdict
====
